---- MODULE Spec2Model ----
(***************************************************************************)
(* Model of the expense-migration tool: MigrationService.migrate and       *)
(* MigrationService.recover with the FileService attachment pipeline, the  *)
(* StorageService uploader and the TableService row retrieval.             *)
(*                                                                         *)
(* Strings that the code takes apart (file names) are sequences of         *)
(* one-character strings; a file system is a function from paths to file   *)
(* contents; the remote services are the environment, whose responses are  *)
(* chosen with \E at the step that awaits them.                            *)
(***************************************************************************)
EXTENDS Integers, Sequences, FiniteSets, TLC

(***************************************************************************)
(* Bounds of the model.                                                    *)
(***************************************************************************)
\* number of row ids the source table may hold
NumRows == 3
\* longest id list of a failure ledger handed to recover (LongLedger apart)
MaxLedger == 2
\* largest configured insertBatchSize
MaxInsertBatch == 2
\* largest number of rows one response of the source table returns
MaxPage == 2
\* the longest array among the source values sanitizeValue is applied to
MaxArrayLen == 2
\* the page requests of one sweep that are followed
MaxPageRequests == 3
\* longest attachment list handed to the attachment pipeline on its own
MaxAttachments == 3

(***************************************************************************)
(* Generic helpers.                                                        *)
(***************************************************************************)
Range(s) == {s[i] : i \in 1..Len(s)}

Min(a, b) == IF a < b THEN a ELSE b

\* Array.prototype.filter
RECURSIVE SelectIdx(_, _)
SelectIdx(s, keep) ==
  IF s = <<>> THEN <<>>
  ELSE LET r == SelectIdx(SubSeq(s, 1, Len(s) - 1), keep)
       IN  IF Len(s) \in keep THEN Append(r, s[Len(s)]) ELSE r

\* all sequences without repetition over S, of length at most n
DistinctSeqs(S, n) ==
  {s \in UNION {[1..k -> S] : k \in 0..n} :
     \A i, j \in 1..Len(s) : i < j => s[i] # s[j]}

(***************************************************************************)
(* JavaScript string operations used on file names (src/unnamed/part_000,  *)
(* src/unnamed/part_001), on sequences of characters.                      *)
(***************************************************************************)
\* String.prototype.lastIndexOf('.'), 1-based, 0 when there is none
lastIndexOfDot(s) ==
  LET dots == {i \in 1..Len(s) : s[i] = "."}
  IN  IF dots = {} THEN 0 ELSE CHOOSE i \in dots : \A j \in dots : j <= i

\* String.prototype.toLowerCase on the alphabet of the model
lowerChar(c) ==
  CASE c = "A" -> "a"
    [] c = "B" -> "b"
    [] c = "P" -> "p"
    [] c = "N" -> "n"
    [] c = "G" -> "g"
    [] OTHER -> c

toLowerCase(s) == CHOOSE r \in {[i \in 1..Len(t) |-> lowerChar(t[i])] : t \in {s}} : TRUE

\* path.extname: from the last dot to the end; empty when there is no dot or
\* the only dot is the first character
extname(name) ==
  LET i == lastIndexOfDot(name)
  IN  IF i <= 1 THEN <<>> ELSE SubSeq(name, i, Len(name))

endsWith(s, suffix) ==
  /\ Len(suffix) <= Len(s)
  /\ SubSeq(s, Len(s) - Len(suffix) + 1, Len(s)) = suffix

\* path.basename(p, ext): ext is removed only when the name ends with it
\* (case-sensitively) and is not the whole name
basename(name, ext) ==
  IF ext # <<>> /\ endsWith(name, ext) /\ Len(name) > Len(ext)
  THEN SubSeq(name, 1, Len(name) - Len(ext))
  ELSE name

WordChars == {"a", "b", "c", "d", "e", "f", "g", "n", "p", "t", "x",
              "A", "B", "G", "N", "P", "0", "1", "2", "_", "-"}

\* replace(/[^a-zA-Z0-9_-]/g, '_')
sanitizeFileName(s) ==
  CHOOSE r \in {[i \in 1..Len(t) |-> IF t[i] \in WordChars THEN t[i] ELSE "_"]
                : t \in {s}} : TRUE

PdfExt == <<".", "p", "d", "f">>

ImageExts == { <<".", "j", "p", "g">>, <<".", "j", "p", "e", "g">>,
               <<".", "p", "n", "g">>, <<".", "g", "i", "f">>,
               <<".", "b", "m", "p">>, <<".", "w", "e", "b", "p">> }

(***************************************************************************)
(* The file system: a function from paths to contents.  A path is a        *)
(* directory ("temp", "upload", "cwd") and a file name.  A document is a   *)
(* sequence of parts, one per attachment that went into it.                *)
(*                                                                         *)
(* CHOOSE g \in {e(f) : f \in {files}} : TRUE is e(files), with files      *)
(* evaluated once.                                                         *)
(***************************************************************************)
Path(dir, name) == [dir |-> dir, name |-> name]

\* fs.writeFileSync / fs.copyFileSync: the file at p is created or replaced
WriteFile(files, p, content) == (p :> content) @@ files

\* fs.unlinkSync of every path of ps that exists
RemoveFiles(files, ps) ==
  CHOOSE g \in {[q \in DOMAIN f \ ps |-> f[q]] : f \in {files}} : TRUE

NoFiles == [q \in {} |-> <<>>]

\* fs.copyFileSync(src, dst)
copyFile(files, src, dst) ==
  CHOOSE g \in {WriteFile(f, dst, f[src]) : f \in {files}} : TRUE

\* FileService.cleanupTempDir / cleanupUploadDir: fs.rmSync(dir, recursive)
RemoveDir(files, dir) == RemoveFiles(files, {q \in DOMAIN files : q.dir = dir})

\* FileService.cleanup: unlink every listed path that exists
cleanup(files, filePaths) == RemoveFiles(files, Range(filePaths))

\* FileService.cleanupProcessedFile
cleanupProcessedFile(files, processedFile) == cleanup(files, <<processedFile.pdfPath>>)

(***************************************************************************)
(* FileService (src/unnamed/part_000).                                     *)
(*                                                                         *)
(* An attachment is [url, name].  The content of a file is a sequence of   *)
(* parts [form, url, name]: form "orig" is the bytes fetched from url,     *)
(* "image" a page embedding the image fetched from url, "placeholder" a    *)
(* page that only states the file name.                                    *)
(***************************************************************************)
TempDir == "temp"
UploadDir == "upload"

\* the points at which the pipeline can be made to fail by its environment
NoFailure == [step |-> "none", idx |-> 0]
FailAt(step, i) == [step |-> step, idx |-> i]

\* downloadFile: the path the file is written to
downloadPath(attachment) == Path(TempDir, attachment.name)

\* downloadFile: fetch and fs.writeFileSync
downloadFile(files, attachment) ==
  WriteFile(files, downloadPath(attachment),
            << [form |-> "orig", url |-> attachment.url, name |-> <<>>] >>)

\* convertToPdf: the output path, tempDir/<basename>.pdf
convertPath(filePath) ==
  LET ext == toLowerCase(extname(filePath.name))
  IN  Path(TempDir, basename(filePath.name, ext) \o PdfExt)

\* convertToPdf: what is written to the output path
convertToPdf(files, filePath) ==
  LET ext == toLowerCase(extname(filePath.name))
      outputPath == convertPath(filePath)
  IN  IF ext = PdfExt
      THEN IF filePath = outputPath
           THEN files
           ELSE copyFile(files, filePath, outputPath)
      ELSE IF ext \in ImageExts
           THEN \* imageToPdf
                CHOOSE g \in {WriteFile(f, outputPath,
                                        << [form |-> "image", url |-> f[filePath][1].url,
                                            name |-> <<>>] >>) : f \in {files}} : TRUE
           ELSE \* createPlaceholderPdf
                WriteFile(files, outputPath,
                          << [form |-> "placeholder", url |-> <<>>,
                              name |-> filePath.name] >>)

\* convertToPdf returns without touching the disk for a file that is a PDF
\* already at its output path
convertIsNoOp(filePath) ==
  toLowerCase(extname(filePath.name)) = PdfExt /\ filePath = convertPath(filePath)

\* processAttachments, lines 192-197: the files after the first k downloads
RECURSIVE downloadLoop(_, _, _)
downloadLoop(files, attachments, k) ==
  IF k = 0 THEN files
  ELSE downloadFile(downloadLoop(files, attachments, k - 1), attachments[k])

downloadedFiles(attachments, k) == [i \in 1..k |-> downloadPath(attachments[i])]

\* processAttachments, lines 200-203: the files after the first k conversions
RECURSIVE convertLoop(_, _, _)
convertLoop(files, downloaded, k) ==
  IF k = 0 THEN files
  ELSE convertToPdf(convertLoop(files, downloaded, k - 1), downloaded[k])

convertedPdfs(downloaded, k) == [i \in 1..k |-> convertPath(downloaded[i])]

\* mergePdfs, lines 160-166: the pages of every listed file, read in order
RECURSIVE mergedPages(_, _)
mergedPages(files, pdfPaths) ==
  IF pdfPaths = <<>> THEN <<>>
  ELSE files[Head(pdfPaths)] \o mergedPages(files, Tail(pdfPaths))

\* mergePdfs
mergePdfs(files, pdfPaths, outputPath) ==
  IF Len(pdfPaths) = 1
  THEN copyFile(files, pdfPaths[1], outputPath)
  ELSE CHOOSE g \in {WriteFile(f, outputPath, mergedPages(f, pdfPaths)) : f \in {files}} :
         TRUE

tempFinalPdfPath(baseFileName) == Path(TempDir, baseFileName \o PdfExt)

\* a staging path that lies in the scratch directory
uploadPdfPathInTemp(baseFileName) == Path(TempDir, baseFileName \o PdfExt)

uploadPdfPath(baseFileName) == Path(UploadDir, baseFileName \o PdfExt)

\* processAttachments, lines 206-222: the combined document in scratch
buildFinalPdf(files, converted, baseFileName) ==
  IF Len(converted) = 1
  THEN IF converted[1] # tempFinalPdfPath(baseFileName)
       THEN copyFile(files, converted[1], tempFinalPdfPath(baseFileName))
       ELSE files
  ELSE mergePdfs(files, converted, tempFinalPdfPath(baseFileName))

\* the single-document case writes nothing when the converted file already
\* has the final name
buildIsNoOp(converted, baseFileName) ==
  Len(converted) = 1 /\ converted[1] = tempFinalPdfPath(baseFileName)

\* a list that leaves out the combined document
filesToCleanupWithoutFinal(downloaded, converted, baseFileName) ==
  downloaded \o converted

\* processAttachments, lines 229-239: the scratch files deleted on success
filesToCleanup(downloaded, converted, baseFileName) ==
  IF tempFinalPdfPath(baseFileName) \in Range(converted)
  THEN downloaded \o converted
  ELSE Append(downloaded \o converted, tempFinalPdfPath(baseFileName))

\* processAttachments, line 250: the files deleted when the pipeline throws
filesToCleanupOnError(downloaded, converted) == downloaded \o converted

\* The failure points open to the environment for one call, given the
\* directories that exist: a download needs the scratch directory, the
\* staging copy needs the staging directory.
PipelineOutcomes(attachments, baseFileName, dirs) ==
  LET n == Len(attachments)
  IN  IF TempDir \notin dirs THEN {FailAt("download", 1)}
      ELSE CHOOSE r \in
             {CHOOSE r1 \in
                {{FailAt("download", i) : i \in 1..n}
                 \cup {FailAt("convert", i) : i \in {j \in 1..n : ~convertIsNoOp(dl[j])}}
                 \cup (IF buildIsNoOp(cv, baseFileName) THEN {} ELSE {FailAt("merge", 0)})
                 \cup {FailAt("copy", 0)}
                 \cup (IF UploadDir \in dirs THEN {NoFailure} ELSE {})
                 : cv \in {convertedPdfs(dl, n)}} : TRUE
              : dl \in {downloadedFiles(attachments, n)}} : TRUE

PipelineError(fail) ==
  CASE fail.step = "download" -> "Failed to download file"
    [] fail.step = "convert"  -> "Error converting to PDF"
    [] fail.step = "merge"    -> "Error merging PDFs"
    [] fail.step = "copy"     -> "ENOENT: copyfile"
    [] OTHER -> ""

\* processAttachments for a non-empty attachment list, with the failure point
\* the environment chose.  Returns the files left on disk, whether the call
\* threw, the ProcessedFile it returned, and the attachments whose download
\* was requested.
processAttachments(files, attachments, baseFileName, fail) ==
  LET n == Len(attachments)
      nDown == IF fail.step = "download" THEN fail.idx - 1 ELSE n
      nConv == CASE fail.step = "download" -> 0
                 [] fail.step = "convert" -> fail.idx - 1
                 [] OTHER -> n
      requested == IF fail.step = "download" THEN fail.idx ELSE n
  IN  CHOOSE r \in
        {CHOOSE r1 \in
           {CHOOSE r2 \in
              {CHOOSE r3 \in
                 {[threw |-> fail.step # "none",
                   error |-> PipelineError(fail),
                   files |-> IF fail.step = "none"
                             THEN cleanup(staged, filesToCleanup(dl, cv, base))
                             ELSE cleanup(staged, filesToCleanupOnError(dl, cv)),
                   processedFile |-> [originalName |-> base,
                                      pdfPath |-> uploadPdfPath(base),
                                      uploadedUrl |-> <<>>],
                   downloads |-> [i \in 1..requested |-> attachments[i].url]]
                  \* lines 206-226: the combined document, then its copy
                  \* into staging
                  : staged \in
                      {IF fail.step \in {"download", "convert", "merge"} THEN converted
                       ELSE IF fail.step = "copy"
                       THEN buildFinalPdf(converted, cv, base)
                       ELSE copyFile(buildFinalPdf(converted, cv, base),
                                     tempFinalPdfPath(base), uploadPdfPath(base))}} : TRUE
               \* the scratch files after the downloads and the conversions
               \* that ran
               : converted \in {convertLoop(downloadLoop(files, attachments, nDown),
                                            dl, nConv)}} : TRUE
            : cv \in {convertedPdfs(dl, nConv)}} : TRUE
         : dl \in {downloadedFiles(attachments, nDown)}, base \in {baseFileName}} : TRUE

\* FileService.cleanupAllDirectories: the directories and the files in them
cleanupAllDirectories(files) == RemoveDir(RemoveDir(files, TempDir), UploadDir)

(***************************************************************************)
(* StorageService (src/src/storage-service.ts, lines 1-165).  The object   *)
(* store is a function from object keys to contents.                       *)
(***************************************************************************)
MigrationFolder == <<"M">>

\* uploadFile, line 33: the object key `${migrationFolder}/${fileName}`
objectKey(fileName) == MigrationFolder \o <<"/">> \o fileName

\* constructPublicUrl: https://<bucket>.<endpoint>/<key>
constructPublicUrl(key) == <<"https://", "bucket", ".", "endpoint", "/">> \o key

\* uploadFile: fs.readFileSync of the local path (throws when it is missing),
\* then PutObject, which the environment lets succeed (putOk) or not
uploadFile(files, objects, filePath, fileName, putOk) ==
  CHOOSE r \in
    {IF filePath \in DOMAIN f /\ putOk
     THEN [threw |-> FALSE, error |-> "",
           objects |-> WriteFile(objects, objectKey(fileName), f[filePath]),
           url |-> constructPublicUrl(objectKey(fileName))]
     ELSE [threw |-> TRUE, error |-> "Failed to upload file",
           objects |-> objects, url |-> <<>>] : f \in {files}} : TRUE

(***************************************************************************)
(* Source values (JSON as the table API returns it in rich format), as     *)
(* tagged records [t, v]: "null", "bool", "num", "str" (v a sequence of    *)
(* characters), "arr" (v a sequence of values), "obj" (v a function from   *)
(* the property names that are present to values; "@type" is a property).  *)
(***************************************************************************)
Null == [t |-> "null", v |-> 0]
Bool(b) == [t |-> "bool", v |-> b]
Num(n) == [t |-> "num", v |-> n]
Str(s) == [t |-> "str", v |-> s]
Arr(s) == [t |-> "arr", v |-> s]
Obj(f) == [t |-> "obj", v |-> f]

\* a property read: undefined (here Null) when the property is absent
Prop(o, p) == IF p \in DOMAIN o.v THEN o.v[p] ELSE Null

\* the "@type" of an object (empty when absent or not a string)
TypeOf(o) ==
  IF "@type" \in DOMAIN o.v /\ o.v["@type"].t = "str" THEN o.v["@type"].v ELSE <<>>

\* JavaScript truthiness
Truthy(x) ==
  CASE x.t = "null" -> FALSE
    [] x.t = "bool" -> x.v
    [] x.t = "num"  -> x.v # 0
    [] x.t = "str"  -> x.v # <<>>
    [] OTHER -> TRUE

\* a || b || ... : the first truthy operand, else the last
RECURSIVE FirstTruthy(_)
FirstTruthy(xs) ==
  IF Len(xs) = 1 \/ Truthy(Head(xs)) THEN Head(xs) ELSE FirstTruthy(Tail(xs))

Digit(d) == <<"0", "1", "2", "3", "4", "5", "6", "7", "8", "9">>[d + 1]

RECURSIVE natToString(_)
natToString(n) ==
  IF n < 10 THEN <<Digit(n)>> ELSE natToString(n \div 10) \o <<Digit(n % 10)>>

\* String(value).  The objects of the table API have no property named
\* toString or valueOf, so Object.prototype.toString always answers.
RECURSIVE jsString(_)
jsString(x) ==
  CASE x.t = "null" -> <<"n", "u", "l", "l">>
    [] x.t = "bool" -> IF x.v THEN <<"t", "r", "u", "e">> ELSE <<"f", "a", "l", "s", "e">>
    [] x.t = "num"  -> IF x.v < 0 THEN <<"-">> \o natToString(0 - x.v) ELSE natToString(x.v)
    [] x.t = "str"  -> x.v
    [] x.t = "arr"  -> \* Array.prototype.toString: join(","), null as ""
         IF x.v = <<>> THEN <<>>
         ELSE LET first == IF Head(x.v).t = "null" THEN <<>> ELSE jsString(Head(x.v))
              IN  IF Len(x.v) = 1 THEN first
                  ELSE first \o <<",">> \o jsString(Arr(Tail(x.v)))
    [] OTHER -> <<"[object Object]">>

IsSpace(c) == c \in {" ", "\t", "\n"}

\* String.prototype.trim
RECURSIVE trim(_)
trim(s) ==
  IF s = <<>> THEN s
  ELSE IF IsSpace(Head(s)) THEN trim(Tail(s))
  ELSE IF IsSpace(s[Len(s)]) THEN trim(SubSeq(s, 1, Len(s) - 1))
  ELSE s

\* the backtick character is written "BQ"
Fence == <<"BQ", "BQ", "BQ">>

startsWith(s, prefix) == Len(prefix) <= Len(s) /\ SubSeq(s, 1, Len(prefix)) = prefix

\* cleanBackticks: a leading and a trailing fence of three backticks are
\* removed (one regex, global, matches do not overlap), then trim()
cleanBackticks(s) ==
  LET rest == IF startsWith(s, Fence) THEN SubSeq(s, 4, Len(s)) ELSE s
      body == IF endsWith(rest, Fence) THEN SubSeq(rest, 1, Len(rest) - 3) ELSE rest
  IN  trim(body)

\* what a call that throws yields in place of a value; the callers pass it on
Raised == [t |-> "raised", v |-> 0]

\* a sanitizeValue that throws on an object of unknown type instead of warning
sanitizeValueRejecting(value) ==
  CASE value.t = "null" -> Null
    [] value.t \in {"bool", "num", "str", "arr"} -> value
    [] OTHER ->
         IF TypeOf(value) \in {<<"MonetaryAmount">>, <<"StructuredValue">>,
                               <<"Person">>, <<"ImageObject">>}
         THEN Str(jsString(value))
         ELSE Raised

\* sanitizeValue (src/unnamed/part_001, lines 621-691).  JSON values are never
\* Date instances, so that branch has no case here.
RECURSIVE sanitizeValue(_)
sanitizeValue(value) ==
  CASE value.t = "null" -> Null
    [] value.t \in {"bool", "num"} -> value
    [] value.t = "str" -> Str(cleanBackticks(value.v))
    [] value.t = "arr" ->
         LET mapped == [i \in 1..Len(value.v) |-> sanitizeValue(value.v[i])]
         IN  Arr(SelectIdx(mapped, {i \in 1..Len(mapped) : mapped[i].t # "null"}))
    [] OTHER ->
         LET type == TypeOf(value)
             str == Str(jsString(value))
         IN  CASE type = <<"MonetaryAmount">> ->
                    IF Prop(value, "amount").t = "num" THEN Prop(value, "amount") ELSE Num(0)
               [] type = <<"StructuredValue">> ->
                    FirstTruthy(<<Prop(value, "name"), Prop(value, "url"),
                                  Prop(value, "displayText"), str>>)
               [] type = <<"Person">> ->
                    FirstTruthy(<<Prop(value, "email"), Prop(value, "name"), str>>)
               [] type = <<"ImageObject">> ->
                    FirstTruthy(<<Prop(value, "url"), Prop(value, "name"), str>>)
               [] OTHER ->
                    IF Truthy(Prop(value, "name")) THEN Str(jsString(Prop(value, "name")))
                    ELSE IF Truthy(Prop(value, "url")) THEN Str(jsString(Prop(value, "url")))
                    ELSE IF Truthy(Prop(value, "displayText"))
                         THEN Str(jsString(Prop(value, "displayText")))
                    ELSE IF Truthy(Prop(value, "text")) THEN Str(jsString(Prop(value, "text")))
                    ELSE str

(***************************************************************************)
(* TableService (src/src/storage-service.ts, lines 166-441): columns and   *)
(* the column mapping.  A column is [id, name, type, calculated, display]; *)
(* a configuration is [columnMappings, skipColumns, transformations], the  *)
(* first and last functions from the configured source column names.       *)
(***************************************************************************)
Column(id, name, type, calculated, display) ==
  [id |-> id, name |-> name, type |-> type, calculated |-> calculated, display |-> display]

\* String.prototype.localeCompare on the column names of the model
ColumnNameOrder ==
  <<"Amount", "Name", "Receipt", "Record file", "Status", "Update status">>

nameRank(name) == CHOOSE i \in 1..Len(ColumnNameOrder) : ColumnNameOrder[i] = name

\* getTableColumns, lines 206-210: the comparator, < 0 when a sorts first
columnBefore(a, b) ==
  IF a.display /\ ~b.display THEN TRUE
  ELSE IF ~a.display /\ b.display THEN FALSE
  ELSE nameRank(a.name) < nameRank(b.name)

\* insertion of one column into a sorted list, after its equals (stable)
RECURSIVE insertColumn(_, _)
insertColumn(sorted, c) ==
  IF sorted = <<>> THEN <<c>>
  ELSE IF columnBefore(c, Head(sorted)) THEN <<c>> \o sorted
  ELSE <<Head(sorted)>> \o insertColumn(Tail(sorted), c)

\* getTableColumns: response.items.sort(...)
RECURSIVE getTableColumns(_)
getTableColumns(items) ==
  IF items = <<>> THEN <<>>
  ELSE insertColumn(getTableColumns(SubSeq(items, 1, Len(items) - 1)), items[Len(items)])

\* a createTransform that looks at the declared types first
createTransformTypeFirst(sourceCol, destCol, config) ==
  IF sourceCol.type # destCol.type
  THEN [kind |-> "auto", destType |-> destCol.type]
  ELSE IF sourceCol.name \in DOMAIN config.transformations
       THEN [kind |-> "custom", destType |-> destCol.type]
       ELSE [kind |-> "none", destType |-> destCol.type]

\* createTransform: which transform a mapping gets
createTransform(sourceCol, destCol, config) ==
  IF sourceCol.name \in DOMAIN config.transformations
  THEN [kind |-> "custom", destType |-> destCol.type]
  ELSE IF sourceCol.type # destCol.type
       THEN [kind |-> "auto", destType |-> destCol.type]
       ELSE [kind |-> "none", destType |-> destCol.type]

\* the function createTransform returns, applied to a value
applyTransform(transform, value) ==
  CASE transform.kind = "custom" -> value
    [] transform.kind = "auto" ->
         IF transform.destType = "text" /\ value.t # "null"
         THEN Str(jsString(value))
         ELSE value
    [] OTHER -> value

\* a loop that skips the calculated columns and no other
skipsColumnCalculatedOnly(sourceCol, config) == sourceCol.calculated

\* createColumnMapping, lines 244-253: the columns the loop passes over
\* before it looks at the configured destination name
skipsColumn(sourceCol, config) ==
  sourceCol.calculated \/ sourceCol.name \in config.skipColumns

\* a search by name alone
destCandidatesByName(destColumns, destColumnName) ==
  {k \in 1..Len(destColumns) : destColumns[k].name = destColumnName}

\* createColumnMapping, lines 264-266: the positions destColumns.find looks
\* for, of which it returns the first
destCandidates(destColumns, destColumnName) ==
  {k \in 1..Len(destColumns) :
     destColumns[k].name = destColumnName /\ ~destColumns[k].calculated}

\* createColumnMapping, lines 242-285, over the sorted column lists
RECURSIVE createColumnMapping(_, _, _)
createColumnMapping(sourceColumns, destColumns, config) ==
  IF sourceColumns = <<>> THEN <<>>
  ELSE
    LET sourceCol == sourceColumns[Len(sourceColumns)]
        before == createColumnMapping(SubSeq(sourceColumns, 1, Len(sourceColumns) - 1),
                                      destColumns, config)
        destColumnName == IF sourceCol.name \in DOMAIN config.columnMappings
                          THEN config.columnMappings[sourceCol.name] ELSE ""
        found == destCandidates(destColumns, destColumnName)
    IN  IF skipsColumn(sourceCol, config) THEN before
        ELSE IF destColumnName = "" THEN before
        ELSE IF found = {} THEN before
        ELSE LET destCol == destColumns[CHOOSE k \in found : \A j \in found : k <= j]
             IN  Append(before, [sourceColumn |-> sourceCol,
                                 destinationColumn |-> destCol,
                                 transform |-> createTransform(sourceCol, destCol, config)])

\* getSpecificRows, line 381
SpecificBatchSize == 20

(***************************************************************************)
(* MigrationService (src/unnamed/part_001): the pure parts.  A source row  *)
(* is [id, name, values], values a function from column ids to values.     *)
(***************************************************************************)
RowValue(row, columnId) ==
  IF columnId \in DOMAIN row.values THEN row.values[columnId] ELSE Null

\* extractAttachmentsFromColumn: the items that are objects with a url and a
\* name, as attachments [url, name]
extractAttachmentsFromColumn(row, columnId) ==
  LET value == RowValue(row, columnId)
  IN  IF value.t = "arr"
      THEN LET keep == {i \in 1..Len(value.v) :
                          /\ value.v[i].t = "obj"
                          /\ Truthy(Prop(value.v[i], "url"))
                          /\ Truthy(Prop(value.v[i], "name"))}
               items == SelectIdx(value.v, keep)
           IN  [i \in 1..Len(items) |->
                  [url |-> Prop(items[i], "url").v, name |-> Prop(items[i], "name").v]]
      ELSE <<>>

\* getBaseFileName
getBaseFileName(row, attachments) ==
  IF Len(attachments) > 0 /\ attachments[1].name # <<>>
  THEN LET fileName == attachments[1].name
           dot == lastIndexOfDot(fileName)
           cut == IF dot = 0 THEN <<>> ELSE SubSeq(fileName, 1, dot - 1)
           baseName == IF cut # <<>> THEN cut ELSE fileName
       IN  sanitizeFileName(baseName)
  ELSE IF row.name # <<>> THEN sanitizeFileName(row.name)
  ELSE <<"r", "o", "w", "_">> \o sanitizeFileName(natToString(row.id))

IsAttachmentMapping(m) ==
  m.sourceColumn.name = "Record file" /\ m.destinationColumn.name = "Receipt"

\* a mapRowData that keeps the first value a destination column got
RECURSIVE mapRowDataKeepingFirst(_, _, _)
mapRowDataKeepingFirst(sourceRow, columnMappings, processedFiles) ==
  IF columnMappings = <<>> THEN [c \in {} |-> Null]
  ELSE
    \* the mappings before the last, then the last
    CHOOSE r \in
      {LET mapping == columnMappings[Len(columnMappings)]
           destId == mapping.destinationColumn.id
           sourceValue == RowValue(sourceRow, mapping.sourceColumn.id)
           destinationValue ==
             sanitizeValue(IF mapping.transform.kind # "none" /\ sourceValue.t # "null"
                           THEN applyTransform(mapping.transform, sourceValue)
                           ELSE sourceValue)
       IN  IF before = Raised \/ destId \in DOMAIN before THEN before
           ELSE IF IsAttachmentMapping(mapping)
           THEN IF Len(processedFiles) > 0
                THEN WriteFile(before, destId, Str(processedFiles[1].uploadedUrl))
                ELSE before
           ELSE IF destinationValue.t # "null"
                THEN WriteFile(before, destId, destinationValue)
                ELSE before
       : before \in {mapRowDataKeepingFirst(
                        sourceRow, SubSeq(columnMappings, 1, Len(columnMappings) - 1),
                        processedFiles)}} : TRUE

\* mapRowData: the destination payload, a function from the destination
\* column ids that got a value (Raised when a call in the loop throws)
RECURSIVE mapRowData(_, _, _)
mapRowData(sourceRow, columnMappings, processedFiles) ==
  IF columnMappings = <<>> THEN [c \in {} |-> Null]
  ELSE
    CHOOSE r \in
      {CHOOSE r1 \in
         {LET destId == mapping.destinationColumn.id
          IN  IF before = Raised THEN Raised
              ELSE IF IsAttachmentMapping(mapping)
              THEN IF Len(processedFiles) > 0
                   THEN WriteFile(before, destId, Str(processedFiles[1].uploadedUrl))
                   ELSE before
              ELSE IF destinationValue = Raised THEN Raised
              ELSE IF destinationValue.t # "null"
                   THEN WriteFile(before, destId, destinationValue)
                   ELSE before
          : destinationValue \in
              {LET sourceValue == RowValue(sourceRow, mapping.sourceColumn.id)
                   transformed == IF mapping.transform.kind # "none"
                                     /\ sourceValue.t # "null"
                                  THEN applyTransform(mapping.transform, sourceValue)
                                  ELSE sourceValue
               IN  sanitizeValue(transformed)}} : TRUE
       : mapping \in {columnMappings[Len(columnMappings)]},
         before \in {mapRowData(sourceRow,
                                SubSeq(columnMappings, 1, Len(columnMappings) - 1),
                                processedFiles)}} : TRUE

\* a processRowAttachments that uploads the staged document and leaves
\* processedFile.uploadedUrl as processAttachments set it
processRowAttachmentsUrlUnset(files, objects, row, attachments, fail, putOk) ==
  CHOOSE r \in
    {IF pipe.threw
     THEN [threw |-> TRUE, error |-> pipe.error, files |-> pipe.files,
           objects |-> objects, processedFile |-> pipe.processedFile,
           downloads |-> pipe.downloads, uploads |-> <<>>]
     ELSE LET up == uploadFile(pipe.files, objects, pipe.processedFile.pdfPath,
                               pipe.processedFile.originalName \o PdfExt, putOk)
          IN  [threw |-> up.threw, error |-> up.error, files |-> pipe.files,
               objects |-> up.objects,
               processedFile |-> pipe.processedFile,
               downloads |-> pipe.downloads,
               uploads |-> <<objectKey(pipe.processedFile.originalName \o PdfExt)>>]
     : pipe \in {processAttachments(files, attachments,
                                    getBaseFileName(row, attachments), fail)}} : TRUE

\* processRowAttachments: the attachment pipeline, then the upload of the
\* staged document under `${originalName}.pdf`
processRowAttachments(files, objects, row, attachments, fail, putOk) ==
  CHOOSE r \in
    {IF pipe.threw
     THEN [threw |-> TRUE, error |-> pipe.error, files |-> pipe.files,
           objects |-> objects, processedFile |-> pipe.processedFile,
           downloads |-> pipe.downloads, uploads |-> <<>>]
     ELSE LET up == uploadFile(pipe.files, objects, pipe.processedFile.pdfPath,
                               pipe.processedFile.originalName \o PdfExt, putOk)
          IN  [threw |-> up.threw, error |-> up.error, files |-> pipe.files,
               objects |-> up.objects,
               processedFile |-> [pipe.processedFile EXCEPT !.uploadedUrl = up.url],
               downloads |-> pipe.downloads,
               uploads |-> <<objectKey(pipe.processedFile.originalName \o PdfExt)>>]
     : pipe \in {processAttachments(files, attachments,
                                    getBaseFileName(row, attachments), fail)}} : TRUE

AttachmentMappings(columnMappings) ==
  {k \in 1..Len(columnMappings) : IsAttachmentMapping(columnMappings[k])}

\* the attachments prepareRow hands to the pipeline: those of the first
\* "Record file" -> "Receipt" mapping, none when there is no such mapping
rowAttachments(sourceRow, columnMappings) ==
  LET found == AttachmentMappings(columnMappings)
  IN  IF found = {} THEN <<>>
      ELSE extractAttachmentsFromColumn(
             sourceRow,
             columnMappings[CHOOSE k \in found : \A j \in found : k <= j].sourceColumn.id)

\* the error of a prepareRow whose mapRowData threw
SanitizeError == "sanitizeValue threw"

\* prepareRow: the PreparedRow, or the error it throws
prepareRow(files, objects, sourceRow, columnMappings, fail, putOk) ==
  CHOOSE r \in
    {IF attachments = <<>>
     THEN CHOOSE q \in
            {[threw |-> data = Raised,
              error |-> IF data = Raised THEN SanitizeError ELSE "",
              files |-> files, objects |-> objects,
              downloads |-> <<>>, uploads |-> <<>>,
              prepared |-> [sourceRowId |-> sourceRow.id,
                            destinationData |-> data,
                            processedFiles |-> <<>>]]
             : data \in {mapRowData(sourceRow, columnMappings, <<>>)}} : TRUE
     ELSE CHOOSE q \in
            {CHOOSE p \in
               {[threw |-> att.threw \/ data = Raised,
                 error |-> IF att.threw THEN att.error
                           ELSE IF data = Raised THEN SanitizeError ELSE "",
                 files |-> att.files,
                 objects |-> att.objects,
                 downloads |-> att.downloads, uploads |-> att.uploads,
                 prepared |->
                   [sourceRowId |-> sourceRow.id,
                    destinationData |-> data,
                    processedFiles |-> IF att.threw THEN <<>> ELSE <<att.processedFile>>]]
                : data \in {IF att.threw THEN [c \in {} |-> Null]
                            ELSE mapRowData(sourceRow, columnMappings,
                                            <<att.processedFile>>)}} : TRUE
             : att \in {processRowAttachments(files, objects, sourceRow, attachments,
                                              fail, putOk)}} : TRUE
     : attachments \in {rowAttachments(sourceRow, columnMappings)}} : TRUE

\* insertRowsBatch: the responses of the remote insert for a request of k rows
\* (the ids the destination creates are numbered from nextId)
InsertResponses(k, nextId) ==
  {[kind |-> "transport", ids |-> <<>>], [kind |-> "http", ids |-> <<>>],
   [kind |-> "noIds", ids |-> <<>>]}
  \cup {[kind |-> "ids", ids |-> [j \in 1..n |-> nextId + j - 1]] : n \in 0..(k + 1)}

InsertError(resp) ==
  CASE resp.kind = "transport" -> "fetch failed"
    [] resp.kind = "http" -> "Failed to insert batch: HTTP 500"
    [] OTHER -> "No row IDs returned from batch insert operation"

BatchSuccess(rowId) == [success |-> TRUE, destinationRowId |-> <<rowId>>, error |-> ""]

\* a failure that carries no error text
BatchFailureWithoutText(error) ==
  [success |-> FALSE, destinationRowId |-> <<>>, error |-> ""]

BatchFailure(error) == [success |-> FALSE, destinationRowId |-> <<>>, error |-> error]

\* an insertRowsBatch that reports a failed request once, not once per row
insertRowsBatchOneFailure(rowDataArray, resp) ==
  IF Len(rowDataArray) = 0 THEN <<>>
  ELSE IF resp.kind = "ids" /\ Len(resp.ids) > 0
       THEN [j \in 1..Len(resp.ids) |-> BatchSuccess(resp.ids[j])]
  ELSE <<BatchFailure(InsertError(resp))>>

\* insertRowsBatch, lines 701-760
insertRowsBatch(rowDataArray, resp) ==
  IF Len(rowDataArray) = 0 THEN <<>>
  ELSE IF resp.kind \in {"transport", "http"}
       THEN [k \in 1..Len(rowDataArray) |-> BatchFailure(InsertError(resp))]
  ELSE IF resp.kind = "ids" /\ Len(resp.ids) > 0
       THEN [j \in 1..Len(resp.ids) |-> BatchSuccess(resp.ids[j])]
  ELSE [k \in 1..Len(rowDataArray) |-> BatchFailure(InsertError(resp))]

\* a MigrationResult; an absent destinationRowId is <<>>, an absent error ""
MigrationResult(success, sourceRowId, destinationRowId, processedFiles, error) ==
  [success |-> success, sourceRowId |-> sourceRowId,
   destinationRowId |-> destinationRowId, processedFiles |-> processedFiles,
   error |-> error]

\* the cleanupProcessedFile calls made for one prepared row
releasesOf(preparedRow) ==
  [k \in 1..Len(preparedRow.processedFiles) |->
     [kind |-> "release",
      arg |-> [row |-> preparedRow.sourceRowId,
               path |-> preparedRow.processedFiles[k].pdfPath]]]

RECURSIVE cleanupProcessedFiles(_, _)
cleanupProcessedFiles(files, processedFiles) ==
  IF processedFiles = <<>> THEN files
  ELSE cleanupProcessedFiles(cleanupProcessedFile(files, Head(processedFiles)),
                             Tail(processedFiles))

\* migrate, lines 124-148: the first k iterations of the loop that maps the
\* batch results back to the rows; st is [files, allResults, events]
\* a result that does not take over the id the destination returned
batchRowResultWithoutId(preparedRow, batchResult) ==
  IF batchResult.success
  THEN MigrationResult(TRUE, preparedRow.sourceRowId, <<>>,
                       preparedRow.processedFiles, "")
  ELSE MigrationResult(FALSE, preparedRow.sourceRowId, <<>>,
                       preparedRow.processedFiles, batchResult.error)

batchRowResult(preparedRow, batchResult) ==
  IF batchResult.success
  THEN MigrationResult(TRUE, preparedRow.sourceRowId, batchResult.destinationRowId,
                       preparedRow.processedFiles, "")
  ELSE MigrationResult(FALSE, preparedRow.sourceRowId, <<>>,
                       preparedRow.processedFiles, batchResult.error)

RECURSIVE mapResultsLoop(_, _, _, _)
mapResultsLoop(st, batch, batchResults, k) ==
  IF k = 0 THEN st
  ELSE CHOOSE next \in
         {[files |-> cleanupProcessedFiles(prev.files, batch[k].processedFiles),
           allResults |-> Append(prev.allResults,
                                 batchRowResult(batch[k], batchResults[k])),
           events |-> prev.events \o releasesOf(batch[k])]
          : prev \in {mapResultsLoop(st, batch, batchResults, k - 1)}} : TRUE

\* migrate, lines 152-168: the handler of an exception raised in the try
\* block, over the first k rows of the batch
RECURSIVE markBatchFailed(_, _, _, _)
markBatchFailed(st, batch, error, k) ==
  IF k = 0 THEN st
  ELSE CHOOSE next \in
         {[files |-> cleanupProcessedFiles(prev.files, batch[k].processedFiles),
           allResults |-> Append(prev.allResults,
                                 MigrationResult(FALSE, batch[k].sourceRowId, <<>>,
                                                 batch[k].processedFiles, error)),
           events |-> prev.events \o releasesOf(batch[k])]
          : prev \in {markBatchFailed(st, batch, error, k - 1)}} : TRUE

UndefinedReadError == "Cannot read properties of undefined (reading 'success')"

\* migrate, lines 119-169: one batch.  batchResults[i] is undefined beyond the
\* end of the list insertRowsBatch returned, and reading its success throws.
insertBatch(st, batch, resp) ==
  CHOOSE next \in
    {IF Len(batchResults) >= Len(batch)
     THEN mapResultsLoop(st, batch, batchResults, Len(batch))
     ELSE markBatchFailed(mapResultsLoop(st, batch, batchResults, Len(batchResults)),
                          batch, UndefinedReadError, Len(batch))
     : batchResults \in
         {insertRowsBatch([k \in 1..Len(batch) |-> batch[k].destinationData], resp)}}
    : TRUE

\* a slice of one row per batch, whatever the batch size
batchesOfOne(preparedRows, batchSize) ==
  [b \in 1..Len(preparedRows) |-> <<preparedRows[b]>>]

\* slices that start at every row, so that a row is submitted again with
\* the rows before it
batchesOverlapping(preparedRows, batchSize) ==
  [b \in 1..Len(preparedRows) |->
     SubSeq(preparedRows, b, Min(b + batchSize - 1, Len(preparedRows)))]

\* migrate, lines 106-111: preparedRows.slice(i, i + batchSize) for each i
batches(preparedRows, batchSize) ==
  [b \in 1..((Len(preparedRows) + batchSize - 1) \div batchSize) |->
     SubSeq(preparedRows, (b - 1) * batchSize + 1,
            Min(b * batchSize, Len(preparedRows)))]

\* migrate, lines 182-206 / recover, lines 402-414
failedResults(allResults) ==
  SelectIdx(allResults, {k \in 1..Len(allResults) : ~allResults[k].success})

successCount(allResults) ==
  Cardinality({k \in 1..Len(allResults) : allResults[k].success})

\* a ledger that lists every result, failed or not
failedRowsDataOfAll(allResults) ==
  [totalFailed |-> Len(allResults),
   failedRowIds |-> [k \in 1..Len(allResults) |-> allResults[k].sourceRowId],
   failedRows |-> [k \in 1..Len(allResults) |->
                     [rowId |-> allResults[k].sourceRowId,
                      error |-> allResults[k].error]]]

failedRowsData(allResults) ==
  LET failed == failedResults(allResults)
  IN  [totalFailed |-> Len(failed),
       failedRowIds |-> [k \in 1..Len(failed) |-> failed[k].sourceRowId],
       failedRows |-> [k \in 1..Len(failed) |->
                         [rowId |-> failed[k].sourceRowId, error |-> failed[k].error]]]

\* a still-failed ledger whose original count is taken from the results
stillFailedDataCountingResults(allResults, failedRowIds) ==
  LET failed == failedResults(allResults)
  IN  [originalFailureCount |-> Len(allResults),
       recoveredCount |-> successCount(allResults),
       totalStillFailed |-> Len(failed),
       failedRowIds |-> [k \in 1..Len(failed) |-> failed[k].sourceRowId],
       failedRows |-> [k \in 1..Len(failed) |->
                         [rowId |-> failed[k].sourceRowId, error |-> failed[k].error]]]

\* recover, lines 402-414
stillFailedData(allResults, failedRowIds) ==
  LET failed == failedResults(allResults)
  IN  [originalFailureCount |-> Len(failedRowIds),
       recoveredCount |-> successCount(allResults),
       totalStillFailed |-> Len(failed),
       failedRowIds |-> [k \in 1..Len(failed) |-> failed[k].sourceRowId],
       failedRows |-> [k \in 1..Len(failed) |->
                         [rowId |-> failed[k].sourceRowId, error |-> failed[k].error]]]

FailedRowsPath == Path("cwd", <<"failed-rows.json">>)
RecoveryResultsPath == Path("cwd", <<"recovery-results.json">>)
StillFailedPath == Path("cwd", <<"still-failed-rows.json">>)

\* a request for every id from index i on
batchIdsAtToEnd(rowIds, i) == SubSeq(rowIds, i + 1, Len(rowIds))

\* getSpecificRows, lines 384 and 417: the ids of one request, and the rows
\* kept from its response
batchIdsAt(rowIds, i) == SubSeq(rowIds, i + 1, Min(i + SpecificBatchSize, Len(rowIds)))

\* a getSpecificRows that keeps every row of the response
unfilteredItems(items, batchIds) == items

filteredItems(items, batchIds) ==
  SelectIdx(items, {k \in 1..Len(items) : items[k].id \in Range(batchIds)})

(***************************************************************************)
(* The environment: the rows of the source table, the schemas and the      *)
(* configuration.                                                          *)
(***************************************************************************)
RowIds == 1..NumRows

Attachment(url, name) ==
  Obj([p \in {"@type", "url", "name"} |->
         CASE p = "@type" -> Str(<<"ImageObject">>)
           [] p = "url" -> Str(<<url>>)
           [] OTHER -> Str(name)])

\* the "Record file" value of each row: one image whose name needs
\* sanitizing, an image and a text file, no attachment, one PDF whose base
\* name is that of row 2
RecordFileOf(id) ==
  CASE id = 1 -> Arr(<< Attachment("u11", <<"a", " ", "b", ".", "p", "n", "g">>) >>)
    [] id = 2 -> Arr(<< Attachment("u21", <<"a", ".", "p", "n", "g">>),
                        Attachment("u22", <<"b", ".", "t", "x", "t">>) >>)
    [] id = 4 -> Arr(<< Attachment("u41", <<"a", ".", "p", "d", "f">>) >>)
    [] OTHER -> Arr(<<>>)

SourceRow(id) ==
  [id |-> id, name |-> <<"r">> \o natToString(id),
   values |-> [c \in {"c-name", "c-file"} |->
                 IF c = "c-name" THEN Str(<<"r">> \o natToString(id))
                 ELSE RecordFileOf(id)]]

SourceColumnItems ==
  << Column("c-file", "Record file", "attachments", FALSE, FALSE),
     Column("c-name", "Name", "text", FALSE, TRUE) >>

\* the destination schemas the mapping step may find: with a Receipt
\* column, without one, and with no column of a configured name
DestColumnItems ==
  { << Column("d-receipt", "Receipt", "link", FALSE, FALSE),
       Column("d-name", "Name", "text", FALSE, TRUE) >>,
    << Column("d-name", "Name", "text", FALSE, TRUE) >>,
    << Column("d-amount", "Amount", "currency", FALSE, TRUE) >> }

Config ==
  [columnMappings |-> [n \in {"Name", "Record file"} |->
                         IF n = "Name" THEN "Name" ELSE "Receipt"],
   skipColumns |-> {},
   transformations |-> [n \in {} |-> ""]]

(***************************************************************************)
(* The state of one MigrationService and of the disk and the services it   *)
(* works on.                                                               *)
(***************************************************************************)
VARIABLES
  pc,              \* where the call is: idle, testing, mapping, columns, sweep,
                   \* targeted, prepare, insert, summary, returned, thrown
  mode,            \* "migrate" or "recover" ("none" before the call)
  insertBatchSize, \* config.insertBatchSize
  dirs,            \* the directories among temp and upload that exist
  files,           \* the files on disk
  objects,         \* the object store
  columnMappings,  \* the mappings createColumnMapping returned
  failedRowIds,    \* recover: the id list read from the ledger
  sourceRows,      \* the rows retrieved so far
  pageToken,       \* getAllTableRows: the cursor (0: none)
  chunkStart,      \* getSpecificRows: the loop index i
  rowIndex,        \* the row the PREPARE loop is at
  preparedRows,
  allResults,
  batchIndex,      \* the batch the INSERT loop is at
  nextRowId,       \* the next id the destination table hands out
  log,             \* the external calls made so far, in order
  returned,        \* the list the call returned
  inFlight,        \* the remote requests issued and not yet answered
  ledgerPath,      \* recover: the path of the ledger file it reads
  cell,            \* one source value handed to sanitizeValue and mapRowData
  cellMapping,     \* the column mapping the value goes through
  sanitized,       \* what sanitizeValue made of the value
  cellPrepared,    \* what prepareRow made of a row that holds the value
  stage,           \* "off", "drawn", "sanitized", "mapped"; "schema", "resolved";
                   \* "attached", "processed"; "again" once a second call
                   \* on the service has begun
  schema,          \* the schemas and the configuration handed to
                   \* createColumnMapping: [source, dest, config]
  pipeline,        \* what processAttachments made of the attachments in cell
  twin             \* the PREPARE and INSERT phases of recover, run beside those
                   \* of migrate on the same rows and the same outcomes

cellVars == <<cell, cellMapping, sanitized, cellPrepared, stage, schema, pipeline,
              twin>>

vars == <<pc, mode, insertBatchSize, dirs, files, objects, columnMappings,
          failedRowIds, sourceRows, pageToken, chunkStart, rowIndex,
          preparedRows, allResults, batchIndex, nextRowId, log, returned, inFlight,
          ledgerPath, cellVars>>

Event(kind, arg) == [kind |-> kind, arg |-> arg]

\* new MigrationService(config, token): the FileService constructor creates
\* both directories
ServiceInit ==
  /\ pc = "idle"
  /\ mode = "none"
  /\ insertBatchSize \in 1..MaxInsertBatch
  /\ dirs = {TempDir, UploadDir}
  /\ files = NoFiles
  /\ objects = NoFiles
  /\ columnMappings = <<>>
  /\ failedRowIds = <<>>
  /\ sourceRows = <<>>
  /\ pageToken = 0
  /\ chunkStart = 0
  /\ rowIndex = 1
  /\ preparedRows = <<>>
  /\ allResults = <<>>
  /\ batchIndex = 1
  /\ nextRowId = 1
  /\ log = <<>>
  /\ returned = <<>>
  /\ inFlight = {}
  /\ ledgerPath = FailedRowsPath

NoSchema == [source |-> <<>>, dest |-> <<>>, config |-> Config]

NoPipeline == <<>>

NoTwin == <<>>

Init ==
  /\ ServiceInit
  /\ cell = Null
  /\ cellMapping = <<>>
  /\ sanitized = Null
  /\ cellPrepared = <<>>
  /\ stage = "off"
  /\ schema = NoSchema
  /\ pipeline = NoPipeline
  /\ twin = NoTwin

runVars == <<columnMappings, sourceRows, pageToken, chunkStart, rowIndex,
             preparedRows, allResults, batchIndex, nextRowId>>

\* the finally block of migrate and recover: cleanupAllDirectories
Finally ==
  /\ files' = cleanupAllDirectories(files)
  /\ dirs' = dirs \ {TempDir, UploadDir}

\* an error thrown inside the try block: rethrown after the finally block;
\* left are the requests still unanswered when it is thrown
ThrowLeaving(events, left) ==
  /\ pc' = "thrown"
  /\ log' = log \o events
  /\ inFlight' = left
  /\ Finally
  /\ UNCHANGED <<mode, cellVars, ledgerPath, insertBatchSize, objects,
                 failedRowIds, runVars, returned>>

Throw(events) == ThrowLeaving(events, {})

\* migrate(): entry
Migrate ==
  /\ pc = "idle"
  /\ pc' = "testing"
  /\ mode' = "migrate"
  /\ UNCHANGED <<cellVars, ledgerPath, inFlight, insertBatchSize, dirs, files,
                 objects, failedRowIds, runVars, log, returned>>

\* a ledger longer than one getSpecificRows request: the id of row 2, ids of
\* rows the source table no longer holds, then the id of row 1
LongLedger ==
  [k \in 1..(SpecificBatchSize + 1) |->
     IF k > SpecificBatchSize THEN 1 ELSE IF k = 1 THEN 2 ELSE NumRows + k]

\* the id lists failed-rows.json may hold
Ledgers == DistinctSeqs(RowIds, MaxLedger) \cup {LongLedger}

LedgerFile(ids) ==
  [totalFailed |-> Len(ids), failedRowIds |-> ids,
   failedRows |-> [k \in 1..Len(ids) |-> [rowId |-> ids[k], error |-> "earlier failure"]]]

\* a still-failed ledger an earlier recovery wrote
StillFailedFile(ids) ==
  [originalFailureCount |-> Len(ids) + 1, recoveredCount |-> 1,
   totalStillFailed |-> Len(ids), failedRowIds |-> ids,
   failedRows |-> [k \in 1..Len(ids) |-> [rowId |-> ids[k], error |-> "earlier failure"]]]

\* recover, line 229: the default path, or the path the caller passes (here
\* that of the still-failed ledger of an earlier recovery)
LedgerPaths == {FailedRowsPath, StillFailedPath}

InputLedger(path, ids) ==
  IF path = StillFailedPath THEN StillFailedFile(ids) ELSE LedgerFile(ids)

\* a recover that does not look at the length of the id list
recoverEntryNoEmptyCheck(exists, ids) ==
  IF ~exists THEN "thrown" ELSE "testing"

\* a recover that does not look whether the ledger file exists: the missing
\* file reads as an empty id list
recoverEntryNoExistsCheck(exists, ids) ==
  IF Len(ids) = 0 THEN "returned" ELSE "testing"

\* recover(), lines 231-242: where the call goes from its first lines: it
\* throws when the ledger file does not exist, returns [] when the id list is
\* empty, and otherwise enters the try block
recoverEntry(exists, ids) ==
  IF ~exists THEN "thrown"
  ELSE IF Len(ids) = 0 THEN "returned"
  ELSE "testing"

\* recover(), lines 229-233: the ledger file does not exist
RecoverNoLedger ==
  /\ pc = "idle"
  /\ pc' = recoverEntry(FALSE, <<>>)
  /\ mode' = "recover"
  /\ ledgerPath' \in LedgerPaths
  /\ UNCHANGED <<cellVars, inFlight, insertBatchSize, dirs, files, objects,
                 failedRowIds, runVars, log, returned>>

\* recover(), lines 236-242: the ledger is read; an empty id list returns []
RecoverReadLedger ==
  /\ pc = "idle"
  /\ \E path \in LedgerPaths, ids \in Ledgers :
       /\ ledgerPath' = path
       /\ files' = WriteFile(files, path, InputLedger(path, ids))
       /\ failedRowIds' = ids
       /\ pc' = recoverEntry(TRUE, ids)
  /\ mode' = "recover"
  /\ returned' = <<>>
  /\ UNCHANGED <<cellVars, inFlight, insertBatchSize, dirs, objects, runVars, log>>

ConnectionTestKey == objectKey(<<"connection-test.txt">>)

\* testConnections: getTable of both tables, then StorageService.testConnection
TestConnections ==
  /\ pc = "testing"
  /\ \/ Throw(<<Event("getTable", "source")>>)
     \/ Throw(<<Event("getTable", "source"), Event("getTable", "destination")>>)
     \/ Throw(<<Event("getTable", "source"), Event("getTable", "destination"),
                Event("putObject", ConnectionTestKey)>>)
     \/ /\ pc' = "mapping"
        /\ objects' = WriteFile(objects, ConnectionTestKey, <<>>)
        /\ log' = log \o <<Event("getTable", "source"), Event("getTable", "destination"),
                           Event("putObject", ConnectionTestKey)>>
        /\ UNCHANGED <<mode, cellVars, ledgerPath, inFlight, insertBatchSize,
                       dirs, files, failedRowIds, runVars, returned>>

ColumnEvents == <<Event("getColumns", "source"), Event("getColumns", "destination")>>

\* a check that lets an empty mapping list through
noMappingsIgnored(mappings) == FALSE

\* migrate, line 46 (recover, line 260)
noMappings(mappings) == Len(mappings) = 0

\* createColumnMapping, lines 222-225: Promise.all over two getTableColumns
\* calls; both requests are issued before either is answered
IssueColumnRequests ==
  /\ pc = "mapping"
  /\ pc' = "columns"
  /\ inFlight' = Range(ColumnEvents)
  /\ log' = log \o ColumnEvents
  /\ UNCHANGED <<mode, cellVars, ledgerPath, insertBatchSize, dirs, files,
                 objects, failedRowIds, runVars, returned>>

\* createColumnMapping once the requests are answered, and the check of
\* migrate, lines 46-48 (recover, 260-262).  Promise.all rejects with the
\* first request that fails, whether or not the other is answered yet.
MapColumns ==
  /\ pc = "columns"
  /\ \/ \E failed \in inFlight : \E left \in SUBSET (inFlight \ {failed}) :
          ThrowLeaving(<<>>, left)
     \/ \E dest \in DestColumnItems :
          LET mappings == createColumnMapping(getTableColumns(SourceColumnItems),
                                              getTableColumns(dest), Config)
          IN  IF noMappings(mappings)
              THEN Throw(<<>>)
              ELSE /\ columnMappings' = mappings
                   /\ pc' = IF mode = "migrate" THEN "sweep" ELSE "targeted"
                   /\ inFlight' = {}
                   /\ UNCHANGED <<mode, cellVars, ledgerPath, insertBatchSize,
                                  dirs, files, objects, failedRowIds,
                                  sourceRows, pageToken, chunkStart, rowIndex,
                                  preparedRows, allResults, batchIndex,
                                  nextRowId, log, returned>>

\* the early return of migrate, lines 58-61 (recover, 272-275), through the
\* finally block
ReturnEmpty(rows, events) ==
  /\ pc' = "returned"
  /\ returned' = <<>>
  /\ sourceRows' = rows
  /\ log' = log \o events
  /\ Finally
  /\ UNCHANGED <<mode, cellVars, ledgerPath, inFlight, insertBatchSize,
                 objects, columnMappings, failedRowIds, pageToken, chunkStart,
                 rowIndex, preparedRows, allResults, batchIndex, nextRowId>>

SeenIds == {sourceRows[k].id : k \in 1..Len(sourceRows)}

\* a loop that goes on whether or not the response carries a cursor
hasNextPageAlways(nextPageToken) == TRUE

\* a loop that is left after the first page
hasNextPageNever(nextPageToken) == FALSE

\* getAllTableRows, line 372: while (pageToken)
hasNextPage(nextPageToken) == nextPageToken # 0

\* the page requests made so far
PageRequests == Cardinality({i \in 1..Len(log) : log[i].kind = "getRows"})

\* getAllTableRows: one page.  The table holds each row once and a page has
\* at most MaxPage rows; whether the response carries a next cursor is the
\* remote's choice.  The cursor of the model is the number of the page it
\* was returned with (0: no cursor).  The loop has no bound of its own: the
\* model follows it for MaxPageRequests requests.
GetTableRowsPage ==
  /\ pc = "sweep"
  /\ PageRequests < MaxPageRequests
  /\ \/ Throw(<<Event("getRows", pageToken)>>)
     \/ \E ids \in DistinctSeqs(RowIds \ SeenIds, MaxPage), more \in BOOLEAN :
          LET rows == sourceRows \o [k \in 1..Len(ids) |-> SourceRow(ids[k])]
              nextPageToken == IF more THEN PageRequests + 1 ELSE 0
              events == <<Event("getRows", pageToken),
                          Event("pageReturned", [ids |-> ids, next |-> nextPageToken])>>
          IN  /\ IF hasNextPage(nextPageToken)
                 THEN /\ sourceRows' = rows
                      /\ pageToken' = nextPageToken
                      /\ log' = log \o events
                      /\ UNCHANGED <<pc, mode, cellVars, ledgerPath, inFlight,
                                     insertBatchSize, dirs, files, objects,
                                     columnMappings, failedRowIds, chunkStart,
                                     rowIndex, preparedRows, allResults,
                                     batchIndex, nextRowId, returned>>
                 ELSE IF Len(rows) = 0
                 THEN ReturnEmpty(rows, events)
                 ELSE /\ sourceRows' = rows
                      /\ pageToken' = nextPageToken
                      /\ pc' = "prepare"
                      /\ log' = log \o events
                      /\ UNCHANGED <<mode, cellVars, ledgerPath, inFlight,
                                     insertBatchSize, dirs, files, objects,
                                     columnMappings, failedRowIds, chunkStart,
                                     rowIndex, preparedRows, allResults,
                                     batchIndex, nextRowId, returned>>

\* getAllTableRows past the requests that are followed one by one: a remote
\* that goes on answering with a next cursor keeps the loop turning.  Such a
\* page is empty (the table's rows are out), its cursor differs from the one
\* passed, and the history keeps the first MaxPageRequests requests only.
GetTableRowsFurtherPage ==
  /\ pc = "sweep"
  /\ PageRequests = MaxPageRequests
  /\ hasNextPage(pageToken)
  /\ \E nextPageToken \in {MaxPageRequests, MaxPageRequests + 1} \ {pageToken} :
       /\ hasNextPage(nextPageToken)
       /\ pageToken' = nextPageToken
  /\ UNCHANGED <<pc, mode, cellVars, ledgerPath, inFlight, insertBatchSize,
                 dirs, files, objects, columnMappings, failedRowIds,
                 chunkStart, sourceRows, rowIndex, preparedRows, allResults,
                 batchIndex, nextRowId, returned, log>>

\* getSpecificRows: one chunk of ids.  The request may fail (it is skipped),
\* and the response may hold any rows of the table, asked for or not, at most
\* MaxPage of them.
GetSpecificRowsChunk ==
  /\ pc = "targeted"
  /\ LET batchIds == batchIdsAt(failedRowIds, chunkStart)
         last == chunkStart + SpecificBatchSize >= Len(failedRowIds)
     IN  \E ok \in BOOLEAN, ids \in DistinctSeqs(RowIds, MaxPage) :
           LET items == [k \in 1..Len(ids) |-> SourceRow(ids[k])]
               rows == IF ok THEN sourceRows \o filteredItems(items, batchIds)
                       ELSE sourceRows
               events == IF ok THEN <<Event("getRowsByIds", batchIds),
                                      Event("rowsReturned", ids)>>
                         ELSE <<Event("getRowsByIds", batchIds)>>
           IN  /\ ~ok => ids = <<>>
               /\ IF ~last
                  THEN /\ sourceRows' = rows
                       /\ chunkStart' = chunkStart + SpecificBatchSize
                       /\ log' = log \o events
                       /\ UNCHANGED <<pc, mode, cellVars, ledgerPath, inFlight,
                                      insertBatchSize, dirs, files, objects,
                                      columnMappings, failedRowIds, pageToken,
                                      rowIndex, preparedRows, allResults,
                                      batchIndex, nextRowId, returned>>
                  ELSE IF Len(rows) = 0
                  THEN ReturnEmpty(rows, events)
                  ELSE /\ sourceRows' = rows
                       /\ chunkStart' = chunkStart + SpecificBatchSize
                       /\ pc' = "prepare"
                       /\ log' = log \o events
                       /\ UNCHANGED <<mode, cellVars, ledgerPath, inFlight,
                                      insertBatchSize, dirs, files, objects,
                                      columnMappings, failedRowIds, pageToken,
                                      rowIndex, preparedRows, allResults,
                                      batchIndex, nextRowId, returned>>

\* the outcomes the environment can give the prepare of one row: where the
\* attachment pipeline fails, if it does, and whether the upload succeeds
PrepareOutcomes(sourceRow) ==
  CHOOSE outcomes \in
    {IF attachments = <<>> THEN {<<NoFailure, TRUE>>}
     ELSE CHOOSE o \in
            {{<<fail, putOk>> \in PipelineOutcomes(attachments, baseFileName, dirs)
                                   \X BOOLEAN : fail.step # "none" => putOk}
             : baseFileName \in {getBaseFileName(sourceRow, attachments)}} : TRUE
     : attachments \in {rowAttachments(sourceRow, columnMappings)}} : TRUE

PrepareEvents(sourceRow, r) ==
  <<Event("prepare", sourceRow.id)>>
  \o [k \in 1..Len(r.downloads) |-> Event("download", r.downloads[k])]
  \o [k \in 1..Len(r.uploads) |-> Event("putObject", r.uploads[k])]

\* a PREPARE loop that pushes the row whether or not prepareRow threw
preparedAfterKeepingFailed(prepared, r) == Append(prepared, r.prepared)

\* migrate, lines 74-76 (recover, 288-290): preparedRows after the try block
\* of one row; r is what prepareRow did
preparedAfter(prepared, r) ==
  IF r.threw THEN prepared ELSE Append(prepared, r.prepared)

\* migrate, lines 78-85 (recover, 292-299): allResults after the catch block
resultsAfterPrepare(results, sourceRow, r) ==
  IF r.threw
  THEN Append(results, MigrationResult(FALSE, sourceRow.id, <<>>, <<>>, r.error))
  ELSE results

\* a PREPARE loop left for the INSERT phase as soon as a row is prepared
afterPrepareInsertingEarly(i, rows, prepared) ==
  IF Len(prepared) > 0 THEN "insert"
  ELSE IF i < Len(rows) THEN "prepare" ELSE "summary"

\* migrate, lines 69 and 106 (recover, 283 and 312): the loop goes on to the
\* next retrieved row; after the last one the INSERT phase runs when a row
\* was prepared
afterPrepare(i, rows, prepared) ==
  IF i < Len(rows) THEN "prepare"
  ELSE IF Len(prepared) > 0 THEN "insert" ELSE "summary"

\* migrate, lines 70-99 (recover, 284-307): one iteration of the PREPARE loop
\* the iteration under one outcome of the external calls of prepareRow
PrepareStep(outcome) ==
  LET sourceRow == sourceRows[rowIndex]
  IN  \E r \in {prepareRow(files, objects, sourceRow, columnMappings,
                          outcome[1], outcome[2])} :
        LET prepared == preparedAfter(preparedRows, r)
        IN  /\ files' = r.files
            /\ objects' = r.objects
            /\ preparedRows' = prepared
            /\ allResults' = resultsAfterPrepare(allResults, sourceRow, r)
            /\ log' = log \o PrepareEvents(sourceRow, r)
            /\ rowIndex' = rowIndex + 1
            /\ pc' = afterPrepare(rowIndex, sourceRows, prepared)

PrepareRow ==
  /\ pc = "prepare"
  /\ \E outcome \in PrepareOutcomes(sourceRows[rowIndex]) : PrepareStep(outcome)
  /\ UNCHANGED <<mode, cellVars, ledgerPath, inFlight, insertBatchSize, dirs,
                 columnMappings, failedRowIds, sourceRows, pageToken,
                 chunkStart, batchIndex, nextRowId, returned>>

\* migrate, lines 115-176 (recover, 321-385): one iteration of the INSERT loop
\* the batch the INSERT loop is at
CurrentBatch == batches(preparedRows, insertBatchSize)[batchIndex]

\* the iteration under one response of the remote insert
InsertStep(resp) ==
  LET all == batches(preparedRows, insertBatchSize)
      batch == all[batchIndex]
  IN  \E st \in {insertBatch([files |-> files, allResults |-> allResults,
                               events |-> <<>>], batch, resp)} :
        /\ files' = st.files
        /\ allResults' = st.allResults
        /\ log' = log
                  \o <<Event("insertRows",
                             [k \in 1..Len(batch) |-> batch[k].sourceRowId]),
                      Event("insertResponse", resp)>>
                  \o st.events
        /\ nextRowId' = nextRowId + Len(resp.ids)
        /\ batchIndex' = batchIndex + 1
        /\ pc' = IF batchIndex < Len(all) THEN "insert" ELSE "summary"

InsertBatch ==
  /\ pc = "insert"
  /\ \E resp \in InsertResponses(Len(CurrentBatch), nextRowId) : InsertStep(resp)
  /\ UNCHANGED <<mode, cellVars, ledgerPath, inFlight, insertBatchSize, dirs,
                 objects, columnMappings, failedRowIds, sourceRows, pageToken,
                 chunkStart, rowIndex, preparedRows, returned>>

\* the normal return of migrate and recover, through the finally block
Return(written, events) ==
  /\ pc' = "returned"
  /\ returned' = allResults
  /\ files' = cleanupAllDirectories(written)
  /\ dirs' = dirs \ {TempDir, UploadDir}
  /\ log' = log \o events
  /\ UNCHANGED <<mode, cellVars, ledgerPath, inFlight, insertBatchSize,
                 objects, failedRowIds, runVars>>

\* migrate, lines 179-214: the ledger is written when a result is failed
\* (fs.writeFileSync may throw), and the results are returned
MigrateSummary ==
  /\ pc = "summary"
  /\ mode = "migrate"
  /\ IF Len(failedResults(allResults)) > 0
     THEN \/ Throw(<<>>)
          \/ Return(WriteFile(files, FailedRowsPath, failedRowsData(allResults)),
                    <<Event("writeFile", FailedRowsPath)>>)
     ELSE Return(files, <<>>)

\* recover, lines 388-421: the results file, then the still-failed ledger
\* when a result is failed
RecoverSummary ==
  /\ pc = "summary"
  /\ mode = "recover"
  /\ LET withResults == WriteFile(files, RecoveryResultsPath, allResults)
     IN  \/ Throw(<<>>)
         \/ /\ Len(failedResults(allResults)) > 0
            /\ pc' = "thrown"
            /\ files' = cleanupAllDirectories(withResults)
            /\ dirs' = dirs \ {TempDir, UploadDir}
            /\ log' = Append(log, Event("writeFile", RecoveryResultsPath))
            /\ UNCHANGED <<mode, cellVars, ledgerPath, inFlight,
                           insertBatchSize, objects, failedRowIds, runVars,
                           returned>>
         \/ IF Len(failedResults(allResults)) > 0
            THEN Return(WriteFile(withResults, StillFailedPath,
                                  stillFailedData(allResults, failedRowIds)),
                        <<Event("writeFile", RecoveryResultsPath),
                          Event("writeFile", StillFailedPath)>>)
            ELSE Return(withResults, <<Event("writeFile", RecoveryResultsPath)>>)

Next ==
  \/ Migrate
  \/ RecoverNoLedger
  \/ RecoverReadLedger
  \/ TestConnections
  \/ IssueColumnRequests
  \/ MapColumns
  \/ GetTableRowsPage
  \/ GetTableRowsFurtherPage
  \/ GetSpecificRowsChunk
  \/ PrepareRow
  \/ InsertBatch
  \/ MigrateSummary
  \/ RecoverSummary

Spec == Init /\ [][Next]_vars

\* every call of the run eventually returns or fails, so the step that waits
\* for it is eventually taken
LiveSpec == Spec /\ WF_vars(Next)

(***************************************************************************)
(* Two calls on one MigrationService: after migrate or recover has         *)
(* returned or thrown, the caller calls migrate or recover again.  The     *)
(* service, its FileService, the disk, the bucket and the tables are those *)
(* the first call left; the locals and the record of events are those of   *)
(* the new call.  The first call is a migrate that ended before it had     *)
(* retrieved a row: it threw in its connection test, in the column         *)
(* requests, in the mapping or in the first page request, or found the     *)
(* table empty.                                                            *)
(***************************************************************************)
EndedEarly == mode = "migrate" /\ sourceRows = <<>>

CallAgain ==
  /\ pc \in {"returned", "thrown"}
  /\ EndedEarly
  /\ stage = "off"
  /\ stage' = "again"
  /\ pc' = "idle"
  /\ mode' = "none"
  /\ columnMappings' = <<>>
  /\ failedRowIds' = <<>>
  /\ sourceRows' = <<>>
  /\ pageToken' = 0
  /\ chunkStart' = 0
  /\ rowIndex' = 1
  /\ preparedRows' = <<>>
  /\ allResults' = <<>>
  /\ batchIndex' = 1
  /\ log' = <<>>
  /\ returned' = <<>>
  /\ inFlight' = {}
  /\ UNCHANGED <<insertBatchSize, dirs, files, objects, nextRowId, ledgerPath, cell,
                 cellMapping, sanitized, cellPrepared, schema, pipeline, twin>>

AgainNext == Next \/ CallAgain

AgainSpec == Init /\ [][AgainNext]_vars

(***************************************************************************)
(* sanitizeValue and mapRowData on their own: one source value of the      *)
(* table API's rich format and one column mapping are drawn, sanitizeValue *)
(* is applied to the value, and prepareRow to a row that holds it.         *)
(***************************************************************************)
CellScalars ==
  {Null, Bool(TRUE), Bool(FALSE), Num(0), Num(42), Str(<<>>), Str(<<"a">>),
   Str(Fence \o <<"a", " ">> \o Fence)}

\* an object of a type with the properties S, each holding its own name
TypedObject(type, S) ==
  Obj([p \in S \cup {"@type"} |-> IF p = "@type" THEN Str(<<type>>) ELSE Str(<<p>>)])

MonetaryAmount(amount) ==
  Obj([p \in {"@type", "amount", "currency"} |->
         CASE p = "@type" -> Str(<<"MonetaryAmount">>)
           [] p = "amount" -> Num(amount)
           [] OTHER -> Str(<<"USD">>)])

\* person and reference values: any of email, name and url may be absent
CellPersons == {TypedObject("Person", S) : S \in SUBSET {"email", "name", "url"}}
CellReferences ==
  {TypedObject("StructuredValue", S) : S \in SUBSET {"email", "name", "url"}}

\* objects sanitizeValue has no branch for: an unknown type, no type at all
CellUnrecognized ==
  {TypedObject("Thing", {"id"}),
   Obj([p \in {"id"} |-> Num(7)]),
   Obj([p \in {} |-> Null])}

CellObjects ==
  {MonetaryAmount(42), MonetaryAmount(0), Attachment("u", <<"a", ".", "p", "n", "g">>)}
    \cup CellPersons \cup CellReferences \cup CellUnrecognized

\* the elements of the arrays: a list cell holds scalars, objects, absent
\* elements and lists
CellItems ==
  {Null, Bool(TRUE), Num(42), Str(<<"a">>), MonetaryAmount(42),
   TypedObject("Person", {"email", "name"}), TypedObject("StructuredValue", {"name", "url"}),
   Attachment("u", <<"a", ".", "p", "n", "g">>), TypedObject("Thing", {"id"}),
   Arr(<<Num(42)>>)}

CellArrays ==
  {Arr(items) : items \in UNION {[1..n -> CellItems] : n \in 0..MaxArrayLen}}

CellValues == CellScalars \cup CellObjects \cup CellArrays

CellSourceColumn == Column("c-cell", "Amount", "currency", FALSE, FALSE)

\* the configurations: without and with a transformation of the column
CellConfigs ==
  {[columnMappings |-> [n \in {"Amount"} |-> "Amount"], skipColumns |-> {},
    transformations |-> [n \in names |-> "select-lookup"]] : names \in SUBSET {"Amount"}}

\* the mappings createColumnMapping builds for the column, by the type of
\* the destination column and the configuration
CellMappings ==
  {[sourceColumn |-> CellSourceColumn,
    destinationColumn |-> Column("d-cell", "Amount", type, FALSE, FALSE),
    transform |-> createTransform(CellSourceColumn,
                                  Column("d-cell", "Amount", type, FALSE, FALSE), config)]
   : type \in {"currency", "text", "link"}, config \in CellConfigs}

\* a row whose only value is the cell
CellRow == [id |-> 1, name |-> <<"r", "1">>, values |-> [c \in {"c-cell"} |-> cell]]

SanitizeInit ==
  /\ ServiceInit
  /\ cell \in CellValues
  /\ cellMapping \in CellMappings
  /\ sanitized = Null
  /\ cellPrepared = <<>>
  /\ stage = "drawn"
  /\ schema = NoSchema
  /\ pipeline = NoPipeline
  /\ twin = NoTwin

serviceVars == <<pc, mode, insertBatchSize, dirs, files, objects, columnMappings,
                 failedRowIds, sourceRows, pageToken, chunkStart, rowIndex,
                 preparedRows, allResults, batchIndex, nextRowId, log, returned,
                 inFlight, ledgerPath>>

\* sanitizeValue(cell)
SanitizeCell ==
  /\ stage = "drawn"
  /\ sanitized' = sanitizeValue(cell)
  /\ stage' = "sanitized"
  /\ UNCHANGED <<cell, cellMapping, cellPrepared, schema, pipeline, twin,
                 serviceVars>>

\* prepareRow of the row that holds the cell, under the one mapping
MapCell ==
  /\ stage = "sanitized"
  /\ cellPrepared' = prepareRow(files, objects, CellRow, <<cellMapping>>, NoFailure, TRUE)
  /\ stage' = "mapped"
  /\ UNCHANGED <<cell, cellMapping, sanitized, schema, pipeline, twin,
                 serviceVars>>

SanitizeNext ==
  \/ SanitizeCell
  \/ MapCell

SanitizeSpec == SanitizeInit /\ [][SanitizeNext]_vars

(***************************************************************************)
(* createColumnMapping on its own: the column lists of the two tables and  *)
(* a configuration are drawn, and the mapping step of migrate is applied   *)
(* to them.                                                                *)
(***************************************************************************)
\* the source table: a display column and a second column, either of which
\* may be calculated
SchemaSourceColumns ==
  {<< Column("c-status", "Status", type, c2, FALSE),
      Column("c-name", "Name", "text", c1, TRUE) >>
   : c1 \in BOOLEAN, c2 \in BOOLEAN, type \in {"text", "select"}}

\* the destination table: the same two columns under their destination
\* names, and a table in which a calculated column and a plain one share a
\* name
SchemaDestColumns ==
  {<< Column("d-status", "Update status", type, c2, FALSE),
      Column("d-name", "Name", "text", c1, TRUE) >>
   : c1 \in BOOLEAN, c2 \in BOOLEAN, type \in {"text", "lookup"}}
  \cup {<< Column("d-formula", "Update status", "text", TRUE, FALSE),
           Column("d-status", "Update status", "lookup", FALSE, FALSE) >>}

\* the configurations: a destination name for any of the source columns
\* (that of a column the destination has, or "Amount", which it has not),
\* any skip-list and a transformation for any of the source columns
SchemaConfigs ==
  {[columnMappings |-> f, skipColumns |-> skip,
    transformations |-> [n \in names |-> "select-lookup"]]
   : f \in UNION {[D -> {"Name", "Update status", "Amount"}]
                    : D \in SUBSET {"Name", "Status"}},
     skip \in SUBSET {"Name", "Status"},
     names \in SUBSET {"Name", "Status"}}

MappingInit ==
  /\ ServiceInit
  /\ cell = Null
  /\ cellMapping = <<>>
  /\ sanitized = Null
  /\ cellPrepared = <<>>
  /\ stage = "schema"
  /\ schema \in [source : SchemaSourceColumns, dest : SchemaDestColumns,
                  config : SchemaConfigs]
  /\ pipeline = NoPipeline
  /\ twin = NoTwin

\* migrate, lines 37-48: createColumnMapping over the two sorted column
\* lists, then the check of the list it returned
ResolveMapping ==
  /\ stage = "schema"
  /\ \E mappings \in {createColumnMapping(getTableColumns(schema.source),
                                           getTableColumns(schema.dest),
                                           schema.config)} :
       /\ columnMappings' = mappings
       /\ pc' = IF noMappings(mappings) THEN "thrown" ELSE "sweep"
  /\ stage' = "resolved"
  /\ UNCHANGED <<mode, insertBatchSize, dirs, files, objects, failedRowIds,
                 sourceRows, pageToken, chunkStart, rowIndex, preparedRows,
                 allResults, batchIndex, nextRowId, log, returned, inFlight,
                 ledgerPath, cell, cellMapping, sanitized, cellPrepared, schema,
                 pipeline, twin>>

MappingNext == ResolveMapping

MappingSpec == MappingInit /\ [][MappingNext]_vars

(***************************************************************************)
(* processAttachments on its own: the attachment list of one row is drawn  *)
(* (names that are equal, or equal up to the extension, included), and the *)
(* pipeline is run on it with the failure point the environment chooses.   *)
(***************************************************************************)
\* the file names of the attachments: two images and a PDF that share a
\* base name, a text file, and an image whose name needs sanitizing
AttachmentNames ==
  { <<"a", ".", "p", "n", "g">>, <<"a", ".", "j", "p", "g">>,
    <<"a", ".", "p", "d", "f">>, <<"b", ".", "t", "x", "t">>,
    <<"a", " ", "b", ".", "p", "n", "g">> }

\* the address of the i-th attachment of the list
AttachmentUrls == <<"u1", "u2", "u3", "u4", "u5">>

AttachmentCells ==
  {Arr([i \in 1..Len(names) |-> Attachment(AttachmentUrls[i], names[i])])
   : names \in UNION {[1..n -> AttachmentNames] : n \in 1..MaxAttachments}}

\* the row that holds the attachment list
AttachmentRow ==
  [id |-> 1, name |-> <<"r", "1">>, values |-> [c \in {"c-file"} |-> cell]]

PipelineInit ==
  /\ ServiceInit
  /\ cell \in AttachmentCells
  /\ cellMapping = <<>>
  /\ sanitized = Null
  /\ cellPrepared = <<>>
  /\ stage = "attached"
  /\ schema = NoSchema
  /\ pipeline = NoPipeline
  /\ twin = NoTwin

\* processRowAttachments, lines 544-550: processAttachments(attachments,
\* getBaseFileName(row, attachments))
ProcessCell ==
  /\ stage = "attached"
  /\ \E attachments \in {extractAttachmentsFromColumn(AttachmentRow, "c-file")} :
       \E baseFileName \in {getBaseFileName(AttachmentRow, attachments)} :
         \E fail \in PipelineOutcomes(attachments, baseFileName, dirs) :
           \E r \in {processAttachments(files, attachments, baseFileName, fail)} :
             /\ pipeline' = r
             /\ files' = r.files
  /\ stage' = "processed"
  /\ UNCHANGED <<pc, mode, insertBatchSize, dirs, objects, columnMappings,
                 failedRowIds, sourceRows, pageToken, chunkStart, rowIndex,
                 preparedRows, allResults, batchIndex, nextRowId, log, returned,
                 inFlight, ledgerPath, cell, cellMapping, sanitized, cellPrepared,
                 schema, twin>>

PipelineNext == ProcessCell

PipelineSpec == PipelineInit /\ [][PipelineNext]_vars

(***************************************************************************)
(* mapRowData on a row of a table in which two source columns are mapped   *)
(* to one destination column, as "Status" and "Update status" are in       *)
(* migration-config.yaml: the schemas and the two values of the row are    *)
(* drawn, and the row is prepared.                                         *)
(***************************************************************************)
\* the source table: "Update status" may be the display column, which puts
\* it first, and may be of another type than the destination column
PayloadSourceColumns ==
  {<< Column("c-status", "Status", "text", FALSE, FALSE),
      Column("c-update", "Update status", type, FALSE, display) >>
   : type \in {"text", "select"}, display \in BOOLEAN}

PayloadDestColumns ==
  << Column("d-status", "Status", "text", FALSE, FALSE) >>

\* migration-config.yaml, lines 36-38
PayloadConfig ==
  [columnMappings |-> [n \in {"Status", "Update status"} |-> "Status"],
   skipColumns |-> {},
   transformations |-> [n \in {} |-> ""]]

\* the values a cell of the row may hold
PayloadCells ==
  {Null, Bool(FALSE), Num(42), Str(<<>>), Str(<<"a">>), Str(<<"b">>), Arr(<<Null>>)}

\* the rows: each of the two cells holds a value or is absent
PayloadRows ==
  {[id |-> 1, name |-> <<"r", "1">>, values |-> f]
   : f \in UNION {[D -> PayloadCells] : D \in SUBSET {"c-status", "c-update"}}}

\* migrate has mapped the columns, retrieved the one row of the table and is
\* about to prepare it
PayloadInit ==
  /\ schema \in [source : PayloadSourceColumns, dest : {PayloadDestColumns},
                  config : {PayloadConfig}]
  /\ columnMappings = createColumnMapping(getTableColumns(schema.source),
                                          getTableColumns(schema.dest), schema.config)
  /\ \E row \in PayloadRows : sourceRows = <<row>>
  /\ log = <<Event("getTable", "source"), Event("getTable", "destination"),
             Event("putObject", ConnectionTestKey)>>
           \o ColumnEvents
           \o <<Event("getRows", 0),
                Event("pageReturned", [ids |-> <<1>>, next |-> 0])>>
  /\ pc = "prepare"
  /\ mode = "migrate"
  /\ insertBatchSize \in 1..MaxInsertBatch
  /\ dirs = {TempDir, UploadDir}
  /\ files = NoFiles
  /\ objects = WriteFile(NoFiles, ConnectionTestKey, <<>>)
  /\ failedRowIds = <<>>
  /\ pageToken = 0
  /\ chunkStart = 0
  /\ rowIndex = 1
  /\ preparedRows = <<>>
  /\ allResults = <<>>
  /\ batchIndex = 1
  /\ nextRowId = 1
  /\ returned = <<>>
  /\ inFlight = {}
  /\ ledgerPath = FailedRowsPath
  /\ cell = Null
  /\ cellMapping = <<>>
  /\ sanitized = Null
  /\ cellPrepared = <<>>
  /\ stage = "off"
  /\ pipeline = NoPipeline
  /\ twin = NoTwin

PayloadNext == PrepareRow

PayloadSpec == PayloadInit /\ [][PayloadNext]_vars

(***************************************************************************)
(* The PREPARE and INSERT phases of recover (part_001, lines 279-386) run  *)
(* beside those of migrate (lines 65-177): both start from the same column *)
(* mappings, the same retrieved rows and the same insert-batch size, and   *)
(* every external call has the same outcome in both.  The state of         *)
(* migrate's phases is in the variables of the service, that of recover's  *)
(* in twin: [files, objects, preparedRows, allResults, events, nextRowId,  *)
(* rowIndex, batchIndex, pc].                                              *)
(***************************************************************************)
\* a result of recover that leaves out the ProcessedFiles of the row
recoverBatchRowResultNoFiles(preparedRow, batchResult) ==
  IF batchResult.success
  THEN MigrationResult(TRUE, preparedRow.sourceRowId, batchResult.destinationRowId,
                       <<>>, "")
  ELSE MigrationResult(FALSE, preparedRow.sourceRowId, <<>>, <<>>, batchResult.error)

\* recover, lines 338-352: the result of one row of an answered batch
recoverBatchRowResult(preparedRow, batchResult) ==
  IF batchResult.success
  THEN MigrationResult(TRUE, preparedRow.sourceRowId, batchResult.destinationRowId,
                       preparedRow.processedFiles, "")
  ELSE MigrationResult(FALSE, preparedRow.sourceRowId, <<>>,
                       preparedRow.processedFiles, batchResult.error)

\* recover, lines 284-307: one iteration of the loop over the retrieved rows;
\* r is what prepareRow did
recoverPrepare(tw, rows, r) ==
  LET sourceRow == rows[tw.rowIndex]
      prepared == IF r.threw THEN tw.preparedRows
                  ELSE Append(tw.preparedRows, r.prepared)
  IN  [tw EXCEPT
         !.files = r.files,
         !.objects = r.objects,
         !.preparedRows = prepared,
         !.allResults = IF r.threw
                        THEN Append(@, MigrationResult(FALSE, sourceRow.id, <<>>, <<>>,
                                                       r.error))
                        ELSE @,
         !.events = @ \o PrepareEvents(sourceRow, r),
         !.rowIndex = @ + 1,
         \* lines 284 and 310
         !.pc = IF tw.rowIndex < Len(rows) THEN "prepare"
                ELSE IF Len(prepared) > 0 THEN "insert" ELSE "summary"]

\* recover, lines 334-358: the first k iterations of the loop that maps the
\* batch results back to the rows
RECURSIVE recoverMapResults(_, _, _, _)
recoverMapResults(tw, batch, batchResults, k) ==
  IF k = 0 THEN tw
  ELSE CHOOSE next \in
         {[prev EXCEPT
             !.allResults = Append(@, recoverBatchRowResult(batch[k], batchResults[k])),
             !.files = cleanupProcessedFiles(@, batch[k].processedFiles),
             !.events = @ \o releasesOf(batch[k])]
          : prev \in {recoverMapResults(tw, batch, batchResults, k - 1)}} : TRUE

\* recover, lines 367-384: the catch block, over the first k rows of the batch
RECURSIVE recoverMarkFailed(_, _, _, _)
recoverMarkFailed(tw, batch, error, k) ==
  IF k = 0 THEN tw
  ELSE CHOOSE next \in
         {[prev EXCEPT
             !.allResults = Append(@, MigrationResult(FALSE, batch[k].sourceRowId, <<>>,
                                                      batch[k].processedFiles, error)),
             !.files = cleanupProcessedFiles(@, batch[k].processedFiles),
             !.events = @ \o releasesOf(batch[k])]
          : prev \in {recoverMarkFailed(tw, batch, error, k - 1)}} : TRUE

\* recover, lines 312-317: preparedRows.slice(i, i + batchSize) for each i
recoverBatches(prepared, batchSize) ==
  [b \in 1..((Len(prepared) + batchSize - 1) \div batchSize) |->
     [k \in 1..Min(batchSize, Len(prepared) - (b - 1) * batchSize) |->
        prepared[(b - 1) * batchSize + k]]]

\* recover, lines 321-385: one batch.  The sample of the first payload that
\* is logged (line 329) and the pause inside the try block (lines 362-366)
\* change nothing and do not throw.
recoverInsertBatch(tw, batchSize, resp) ==
  LET all == recoverBatches(tw.preparedRows, batchSize)
      batch == all[tw.batchIndex]
      requests == <<Event("insertRows", [k \in 1..Len(batch) |-> batch[k].sourceRowId]),
                    Event("insertResponse", resp)>>
      sent == [tw EXCEPT !.events = @ \o requests,
                         !.nextRowId = @ + Len(resp.ids),
                         !.batchIndex = @ + 1,
                         !.pc = IF tw.batchIndex < Len(all) THEN "insert"
                                ELSE "summary"]
  IN  CHOOSE next \in
        {IF Len(batchResults) >= Len(batch)
         THEN recoverMapResults(sent, batch, batchResults, Len(batch))
         ELSE recoverMarkFailed(
                recoverMapResults(sent, batch, batchResults, Len(batchResults)),
                batch, UndefinedReadError, Len(batch))
         : batchResults \in
             {insertRowsBatch([k \in 1..Len(batch) |-> batch[k].destinationData],
                              resp)}} : TRUE

\* the column mappings the mapping step can return
PhaseMappings ==
  {createColumnMapping(getTableColumns(SourceColumnItems), getTableColumns(dest), Config)
   : dest \in DestColumnItems} \ {<<>>}

\* the ids of the table the phases are run on: one row more than RowIds, so
\* that rows 2 and 4, whose first attachments share a base name, are among
\* them
PhaseRowIds == 1..(NumRows + 1)

\* migrate has retrieved the rows in one page and is about to prepare the
\* first; recover has read a ledger of the same ids and retrieved the same
\* rows
PhaseInit ==
  /\ \E ids \in DistinctSeqs(PhaseRowIds, MaxPage) \ {<<>>} :
       /\ sourceRows = [k \in 1..Len(ids) |-> SourceRow(ids[k])]
       /\ log = <<Event("getTable", "source"), Event("getTable", "destination"),
                  Event("putObject", ConnectionTestKey)>>
                \o ColumnEvents
                \o <<Event("getRows", 0),
                     Event("pageReturned", [ids |-> ids, next |-> 0])>>
       /\ twin = [files |-> WriteFile(NoFiles, FailedRowsPath, LedgerFile(ids)),
                  objects |-> WriteFile(NoFiles, ConnectionTestKey, <<>>),
                  preparedRows |-> <<>>, allResults |-> <<>>, events |-> <<>>,
                  nextRowId |-> 1, rowIndex |-> 1, batchIndex |-> 1,
                  pc |-> "prepare"]
  /\ pc = "prepare"
  /\ mode = "migrate"
  /\ insertBatchSize \in 1..MaxInsertBatch
  /\ dirs = {TempDir, UploadDir}
  /\ files = NoFiles
  /\ objects = WriteFile(NoFiles, ConnectionTestKey, <<>>)
  /\ columnMappings \in PhaseMappings
  /\ failedRowIds = <<>>
  /\ pageToken = 0
  /\ chunkStart = 0
  /\ rowIndex = 1
  /\ preparedRows = <<>>
  /\ allResults = <<>>
  /\ batchIndex = 1
  /\ nextRowId = 1
  /\ returned = <<>>
  /\ inFlight = {}
  /\ ledgerPath = FailedRowsPath
  /\ cell = Null
  /\ cellMapping = <<>>
  /\ sanitized = Null
  /\ cellPrepared = <<>>
  /\ stage = "off"
  /\ schema = NoSchema
  /\ pipeline = NoPipeline

phaseFrame == <<mode, insertBatchSize, dirs, columnMappings, failedRowIds,
                sourceRows, pageToken, chunkStart, returned, inFlight, ledgerPath,
                cell, cellMapping, sanitized, cellPrepared, stage, schema, pipeline>>

\* one row is prepared by both, with the same outcome of the downloads, the
\* conversions and the upload
PhasePrepare ==
  /\ pc = "prepare"
  /\ twin.pc = "prepare"
  /\ \E outcome \in PrepareOutcomes(sourceRows[rowIndex]) :
       /\ PrepareStep(outcome)
       /\ \E r \in {prepareRow(twin.files, twin.objects, sourceRows[twin.rowIndex],
                                columnMappings, outcome[1], outcome[2])} :
            twin' = recoverPrepare(twin, sourceRows, r)
  /\ UNCHANGED <<phaseFrame, batchIndex, nextRowId>>

\* one batch is submitted by both, with the same response of the remote
PhaseInsert ==
  /\ pc = "insert"
  /\ twin.pc = "insert"
  /\ \E resp \in InsertResponses(Len(CurrentBatch), nextRowId) :
       /\ InsertStep(resp)
       /\ twin' = recoverInsertBatch(twin, insertBatchSize, resp)
  /\ UNCHANGED <<phaseFrame, objects, rowIndex, preparedRows>>

PhaseNext ==
  \/ PhasePrepare
  \/ PhaseInsert

PhaseSpec == PhaseInit /\ [][PhaseNext]_vars

(***************************************************************************)
(* Properties.  Positions in log are indices; the events of a call are     *)
(* read back from it.                                                      *)
(***************************************************************************)
PositionsOf(kind) == {i \in 1..Len(log) : log[i].kind = kind}

\* the position of the b-th event of a kind (0 when there is none)
NthPosition(kind, b) ==
  LET S == PositionsOf(kind)
  IN  IF Cardinality(S) < b THEN 0
      ELSE CHOOSE i \in S : Cardinality({j \in S : j <= i}) = b

ArgsOf(kind) ==
  [b \in 1..Cardinality(PositionsOf(kind)) |-> log[NthPosition(kind, b)].arg]

ResultsFor(results, id) == {j \in 1..Len(results) : results[j].sourceRowId = id}

IdsOf(rows) == [k \in 1..Len(rows) |-> rows[k].id]

SourceIdsOf(prepared) == [k \in 1..Len(prepared) |-> prepared[k].sourceRowId]

PipelineErrors ==
  {PipelineError(FailAt(step, 1)) : step \in {"download", "convert", "merge", "copy"}}

PrepareErrors == PipelineErrors \cup {"Failed to upload file"}

\* an insert response that carries a non-empty id list shorter than the request
ShortIdList(i) ==
  /\ log[i].kind = "insertRows"
  /\ log[i + 1].arg.kind = "ids"
  /\ Len(log[i + 1].arg.ids) > 0
  /\ Len(log[i + 1].arg.ids) < Len(log[i].arg)

\* C1: a migrate call that retrieved N rows returns exactly one
\* MigrationResult per row, whatever the insert responses were (an id list
\* of another length than the chunk included).
C1_OneResultPerRow ==
  (pc = "returned" /\ mode = "migrate") =>
    /\ Len(returned) = Len(sourceRows)
    /\ \A k \in 1..Len(sourceRows) :
         Cardinality(ResultsFor(returned, sourceRows[k].id)) = 1

\* migrate returned more results than rows after a short id list
C1_MoreResultsThanRows ==
  /\ pc = "returned"
  /\ mode = "migrate"
  /\ Len(returned) > Len(sourceRows)
  /\ \E i \in PositionsOf("insertRows") : ShortIdList(i)

\* C2: insertRowsBatch over K payloads returns exactly K entries, all
\* successes or all failures, for every response (an id list of any length
\* included).
C2_OneEntryPerPayload ==
  pc = "insert" =>
    LET batch == batches(preparedRows, insertBatchSize)[batchIndex]
        rowDataArray == [k \in 1..Len(batch) |-> batch[k].destinationData]
    IN  \A resp \in InsertResponses(Len(batch), nextRowId) :
          LET batchResults == insertRowsBatch(rowDataArray, resp)
          IN  /\ Len(batchResults) = Len(rowDataArray)
              /\ \/ \A k \in 1..Len(batchResults) : batchResults[k].success
                 \/ \A k \in 1..Len(batchResults) : ~batchResults[k].success

\* an insert request of two rows was answered with one id
C2_IdListOfOtherLength ==
  \E i \in PositionsOf("insertRows") :
    /\ Len(log[i].arg) = 2
    /\ log[i + 1].arg.kind = "ids"
    /\ Len(log[i + 1].arg.ids) = 1

\* the files the attachment pipeline may write for a row
RowFiles(row) ==
  LET attachments == rowAttachments(row, columnMappings)
      n == Len(attachments)
      dl == downloadedFiles(attachments, n)
      baseFileName == getBaseFileName(row, attachments)
  IN  IF n = 0 THEN {}
      ELSE Range(dl) \cup Range(convertedPdfs(dl, n))
           \cup {tempFinalPdfPath(baseFileName), uploadPdfPath(baseFileName)}

\* C3: when the attachment pipeline of a row fails at any of its steps
\* (download, convert, merge, copy into staging), every scratch and staged
\* file of the row is gone once the error has reached the PREPARE loop, and
\* the row has exactly one result, a failed one.
C3_FailedPipelineLeavesNoFile ==
  pc \in {"prepare", "insert", "summary"} =>
    \A k \in 1..(rowIndex - 1) :
      (\E j \in ResultsFor(allResults, sourceRows[k].id) :
         allResults[j].error \in PipelineErrors)
      => /\ RowFiles(sourceRows[k]) \cap DOMAIN files = {}
         /\ Cardinality(ResultsFor(allResults, sourceRows[k].id)) = 1
         /\ \A j \in ResultsFor(allResults, sourceRows[k].id) : ~allResults[j].success

\* the copy into staging failed for a row and its combined document is
\* still in the scratch directory
C3_ScratchFileLeft ==
  /\ pc = "prepare"
  /\ rowIndex > 1
  /\ \E j \in ResultsFor(allResults, sourceRows[1].id) :
       allResults[j].error = PipelineError(FailAt("copy", 0))
  /\ \E q \in RowFiles(sourceRows[1]) \cap DOMAIN files : q.dir = TempDir

\* the release events of one ProcessedFile among the positions S of log
ReleasesIn(S, row, processedFile) ==
  {i \in S : log[i] = Event("release", [row |-> row.sourceRowId,
                                         path |-> processedFile.pdfPath])}

\* C4: in the INSERT phase every ProcessedFile of every row of a chunk is
\* released exactly once, after the insert attempt of the chunk and before
\* the next chunk is submitted, whatever the outcome of the attempt.
C4_ReleasedExactlyOnce ==
  \A b \in 1..Cardinality(PositionsOf("insertRows")) :
    LET batch == batches(preparedRows, insertBatchSize)[b]
        from == NthPosition("insertRows", b)
        next == NthPosition("insertRows", b + 1)
        until == IF next = 0 THEN Len(log) ELSE next - 1
    IN  \A k \in 1..Len(batch) :
          \A f \in 1..Len(batch[k].processedFiles) :
            /\ Cardinality(ReleasesIn((from + 1)..until, batch[k],
                                      batch[k].processedFiles[f])) = 1
            /\ ReleasesIn(1..Len(log), batch[k], batch[k].processedFiles[f])
                 \subseteq (from + 1)..until

\* a ProcessedFile was released twice in one chunk
C4_ReleasedTwice ==
  \E i, j \in PositionsOf("release") :
    /\ i < j
    /\ log[i] = log[j]
    /\ \E p \in PositionsOf("insertRows") : p < i /\ ShortIdList(p)

\* C5: on every exit path of migrate and of recover (a missing or an empty
\* ledger included) the scratch and the staging directory are removed.
C5_ExitRemovesDirectories ==
  pc \in {"returned", "thrown"} =>
    /\ dirs \cap {TempDir, UploadDir} = {}
    /\ \A q \in DOMAIN files : q.dir \notin {TempDir, UploadDir}

\* recover ended on a missing or an empty ledger with both directories left
C5_DirectoriesLeft ==
  /\ pc \in {"returned", "thrown"}
  /\ mode = "recover"
  /\ log = <<>>
  /\ dirs = {TempDir, UploadDir}

\* C6: a row whose PREPARE fails gets exactly one result, a failed one, is
\* in no chunk submitted for insertion, and does not stop the rows after it:
\* every retrieved row is prepared exactly once, in retrieval order.
C6_PrepareFailureIsolated ==
  /\ ArgsOf("prepare") = SubSeq(IdsOf(sourceRows), 1, rowIndex - 1)
  /\ pc \in {"insert", "summary"} => rowIndex = Len(sourceRows) + 1
  /\ SourceIdsOf(preparedRows)
       = SelectIdx(IdsOf(sourceRows),
                   {k \in 1..(rowIndex - 1) :
                      \A j \in ResultsFor(allResults, sourceRows[k].id) :
                        allResults[j].error \notin PrepareErrors})
  /\ \A k \in 1..(rowIndex - 1) :
       LET id == sourceRows[k].id
           failedPrepare == {j \in ResultsFor(allResults, id) :
                               allResults[j].error \in PrepareErrors}
       IN  failedPrepare # {} =>
             /\ Cardinality(ResultsFor(allResults, id)) = 1
             /\ \A j \in failedPrepare : ~allResults[j].success
             /\ \A i \in PositionsOf("insertRows") : id \notin Range(log[i].arg)

\* the first row failed in PREPARE and the second was prepared and inserted
C6_LaterRowInserted ==
  /\ pc = "summary"
  /\ Len(sourceRows) >= 2
  /\ \E j \in ResultsFor(allResults, sourceRows[1].id) :
       allResults[j].error \in PrepareErrors
  /\ \E j \in ResultsFor(allResults, sourceRows[2].id) : allResults[j].success

\* the response to the insert request the step from log to log' made
StepResponse == log'[Len(log) + 2].arg

FailedInsert(resp) ==
  resp.kind \in {"transport", "http", "noIds"} \/ resp.ids = <<>>

\* C7: an insert request that fails (transport error, non-OK status, no or
\* an empty id list) marks every row of its chunk, and no other row, as
\* failed with one and the same error; each chunk is submitted exactly once,
\* in order, and the chunks after a failed one are still submitted.
C7_InsertStep ==
  pc = "insert" =>
    LET all == batches(preparedRows, insertBatchSize)
        batch == all[batchIndex]
    IN  /\ log'[Len(log) + 1] = Event("insertRows", SourceIdsOf(batch))
        /\ Cardinality({i \in 1..Len(log') : log'[i].kind = "insertRows"}) = batchIndex
        /\ batchIndex' = batchIndex + 1
        /\ preparedRows' = preparedRows
        /\ pc' = IF batchIndex < Len(all) THEN "insert" ELSE "summary"
        /\ FailedInsert(StepResponse) =>
             /\ Len(allResults') = Len(allResults) + Len(batch)
             /\ allResults' =
                  allResults \o
                  [k \in 1..Len(batch) |->
                     MigrationResult(FALSE, batch[k].sourceRowId, <<>>,
                                     batch[k].processedFiles,
                                     allResults'[Len(allResults) + 1].error)]
             /\ allResults'[Len(allResults) + 1].error = InsertError(StepResponse)

C7_FailedChunkMarksItsRows == [][C7_InsertStep]_vars

\* a chunk of two rows failed with a non-OK status and the next chunk was
\* inserted
C7_ChunkAfterFailedChunk ==
  \E i, j \in PositionsOf("insertResponse") :
    /\ i < j
    /\ log[i].arg.kind = "http"
    /\ Len(log[i - 1].arg) = 2
    /\ log[j].arg.kind = "ids"
    /\ Len(log[j].arg.ids) = Len(log[j - 1].arg)
    /\ \E k \in 1..Len(allResults) : allResults[k].success

ConnectionTestEvents ==
  <<Event("getTable", "source"), Event("getTable", "destination"),
    Event("putObject", ConnectionTestKey)>>

\* the call has retrieved nothing, prepared nothing, inserted nothing and
\* written no file
NothingDone ==
  /\ \A i \in 1..Len(log) :
       /\ log[i].kind \in {"getTable", "putObject", "getColumns"}
       /\ log[i].kind = "putObject" => log[i].arg = ConnectionTestKey
  /\ sourceRows = <<>>
  /\ preparedRows = <<>>
  /\ allResults = <<>>
  /\ DOMAIN objects \subseteq {ConnectionTestKey}
  /\ DOMAIN files \subseteq {ledgerPath}
  /\ ledgerPath \in DOMAIN files =>
       mode = "recover" /\ files[ledgerPath] = InputLedger(ledgerPath, failedRowIds)

\* C8: when the connection test fails or the column mapping is empty,
\* migrate and recover end with a fatal error, and no row has been
\* retrieved, no attachment downloaded or uploaded, no insert requested and
\* no ledger or result file written.
C8_FatalBeforeAnyWork ==
  /\ (pc \in {"sweep", "targeted", "prepare", "insert", "summary"}
      \/ (pc = "returned" /\ ~(mode = "recover" /\ failedRowIds = <<>>)))
     => /\ columnMappings # <<>>
        /\ ConnectionTestKey \in DOMAIN objects
        /\ SubSeq(log, 1, Len(ConnectionTestEvents)) = ConnectionTestEvents
  /\ (pc \in {"testing", "mapping"} \/ (pc = "thrown" /\ columnMappings = <<>>))
     => NothingDone

\* the connection test passed and the call was ended by the mapping step
C8_FatalAtMapping ==
  /\ pc = "thrown"
  /\ columnMappings = <<>>
  /\ log = ConnectionTestEvents \o ColumnEvents

\* C9: a recovery over the ledger L never sweeps the table; every retrieval
\* request names ids of L only, and every row prepared or submitted for
\* insertion has an id of L, also when the remote returns rows that were
\* not asked for.
C9_RecoveryTouchesOnlyLedgerIds ==
  mode = "recover" =>
    LET L == Range(failedRowIds)
    IN  /\ \A i \in 1..Len(log) :
             /\ log[i].kind # "getRows"
             /\ log[i].kind = "getRowsByIds" => Range(log[i].arg) \subseteq L
             /\ log[i].kind = "prepare" => log[i].arg \in L
             /\ log[i].kind = "insertRows" => Range(log[i].arg) \subseteq L
        /\ Range(IdsOf(sourceRows)) \subseteq L
        /\ Range(SourceIdsOf(preparedRows)) \subseteq L
        /\ \A j \in 1..Len(allResults) : allResults[j].sourceRowId \in L

\* the remote returned a row that is not in the ledger, and the recovery
\* went on to insert
C9_UnrequestedRowReturned ==
  /\ mode = "recover"
  /\ \E i \in PositionsOf("rowsReturned"), j \in PositionsOf("insertRows") :
       /\ i < j
       /\ ~(Range(log[i].arg) \subseteq Range(failedRowIds))

\* C10: after a recovery that ended without a fatal error, every id of the
\* ledger L is the source id of a successful result or is in the persisted
\* still-failed ledger, also when a chunk failed or fewer rows came back
\* than were asked for.
StillFailedWritten ==
  \E i \in PositionsOf("writeFile") : log[i].arg = StillFailedPath

C10_NoLedgerIdLost ==
  (pc = "returned" /\ mode = "recover") =>
    \A id \in Range(failedRowIds) :
      \/ \E j \in ResultsFor(returned, id) : returned[j].success
      \/ /\ StillFailedWritten
         /\ id \in Range(files[StillFailedPath].failedRowIds)

\* the remote returned one of the two rows asked for, it was recovered, and
\* the other id is in no result and in no ledger written by the call
C10_LedgerIdDropped ==
  /\ pc = "returned"
  /\ mode = "recover"
  /\ Len(failedRowIds) = 2
  /\ Len(returned) = 1
  /\ returned[1].success
  /\ ~StillFailedWritten

(***************************************************************************)
(* C11: when migrate returns, failed-rows.json has been written if and     *)
(* only if a returned result is failed; its failedRowIds are the source    *)
(* ids of the failed results in result order, and failedRows holds one     *)
(* {rowId, error} entry per failed result, in the same order.              *)
(***************************************************************************)
LedgerWritten == \E i \in PositionsOf("writeFile") : log[i].arg = FailedRowsPath

FailedOf(results) ==
  SelectIdx(results, {k \in 1..Len(results) : ~results[k].success})

C11_LedgerListsFailedResults ==
  (pc = "returned" /\ mode = "migrate") =>
    LET failed == FailedOf(returned)
    IN  /\ LedgerWritten <=> Len(failed) > 0
        /\ LedgerWritten =>
              /\ FailedRowsPath \in DOMAIN files
              /\ files[FailedRowsPath].totalFailed = Len(failed)
              /\ files[FailedRowsPath].failedRowIds =
                    [k \in 1..Len(failed) |-> failed[k].sourceRowId]
              /\ files[FailedRowsPath].failedRows =
                    [k \in 1..Len(failed) |->
                       [rowId |-> failed[k].sourceRowId, error |-> failed[k].error]]

C11_LedgerBesideSuccess ==
  /\ pc = "returned"
  /\ mode = "migrate"
  /\ LedgerWritten
  /\ Len(FailedOf(returned)) >= 2
  /\ \E k \in 1..Len(returned) : returned[k].success

(***************************************************************************)
(* C12: a recovery whose ledger holds an empty id list returns the empty   *)
(* list and makes no external call: no connection test, no schema fetch,   *)
(* no row retrieval, no download, no upload and no insert.                 *)
(***************************************************************************)
EmptyLedgerRecovery ==
  /\ mode = "recover"
  /\ ledgerPath \in DOMAIN files
  /\ files[ledgerPath].failedRowIds = <<>>

C12_EmptyLedgerDoesNothing ==
  EmptyLedgerRecovery =>
    /\ pc = "returned"
    /\ returned = <<>>
    /\ log = <<>>
    /\ objects = NoFiles
    /\ sourceRows = <<>> /\ preparedRows = <<>> /\ allResults = <<>>

C12_EmptyLedgerReturned == EmptyLedgerRecovery /\ pc = "returned"

(***************************************************************************)
(* C13: a recovery whose ledger file does not exist throws before any      *)
(* external call and before any row is touched, and writes neither         *)
(* recovery-results.json nor still-failed-rows.json.                       *)
(***************************************************************************)
MissingLedgerRecovery == mode = "recover" /\ ledgerPath \notin DOMAIN files

C13_MissingLedgerIsFatal ==
  MissingLedgerRecovery =>
    /\ pc = "thrown"
    /\ log = <<>>
    /\ objects = NoFiles
    /\ sourceRows = <<>> /\ preparedRows = <<>> /\ allResults = <<>>
    /\ RecoveryResultsPath \notin DOMAIN files
    /\ StillFailedPath \notin DOMAIN files

C13_MissingLedgerThrown == MissingLedgerRecovery /\ pc = "thrown"

(***************************************************************************)
(* C14: with P prepared rows and batch size B >= 1 the INSERT phase        *)
(* submits exactly ceil(P/B) chunks; every chunk but the last has B rows,  *)
(* the last has between 1 and B rows, and the chunks in submission order,  *)
(* concatenated, are the prepared rows in preparation order.               *)
(***************************************************************************)
RECURSIVE Concat(_)
Concat(seqs) == IF seqs = <<>> THEN <<>> ELSE Head(seqs) \o Concat(Tail(seqs))

CeilDiv(p, b) == (p + b - 1) \div b

C14_ChunksPartitionPreparedRows ==
  (pc = "summary" /\ insertBatchSize >= 1) =>
    LET chunks == ArgsOf("insertRows")
        P == Len(preparedRows)
        B == insertBatchSize
    IN  /\ Len(chunks) = CeilDiv(P, B)
        /\ \A c \in 1..(Len(chunks) - 1) : Len(chunks[c]) = B
        /\ Len(chunks) > 0 =>
              Len(chunks[Len(chunks)]) >= 1 /\ Len(chunks[Len(chunks)]) <= B
        /\ Concat(chunks) = SourceIdsOf(preparedRows)

C14_TwoChunksLastShort ==
  /\ pc = "summary"
  /\ insertBatchSize = 2
  /\ Len(preparedRows) = 3
  /\ Len(ArgsOf("insertRows")) = 2

(***************************************************************************)
(* C15: every value of the destination payload PREPARE builds is a         *)
(* boolean, a number, a string, or an array of booleans, numbers and       *)
(* strings: none is a structured object, a null, or an array that holds a  *)
(* structured object or another array.                                     *)
(***************************************************************************)
IsScalar(x) == x.t \in {"bool", "num", "str"}

IsPayloadValue(x) ==
  \/ IsScalar(x)
  \/ x.t = "arr" /\ \A i \in 1..Len(x.v) : IsScalar(x.v[i])

C15_PayloadValuesAreFlat ==
  (stage = "mapped" /\ ~cellPrepared.threw) =>
    \A c \in DOMAIN cellPrepared.prepared.destinationData :
      IsPayloadValue(cellPrepared.prepared.destinationData[c])

\* a list inside a list reaches the payload as it is
C15_NestedListInPayload ==
  /\ stage = "mapped"
  /\ cell = Arr(<<Arr(<<Num(42)>>)>>)
  /\ cellMapping.transform.kind = "none"
  /\ cellPrepared.prepared.destinationData["d-cell"] = Arr(<<Arr(<<Num(42)>>)>>)

(***************************************************************************)
(* C16: sanitizeValue returns booleans and numbers unchanged, reduces a    *)
(* monetary value to its numeric amount, reduces a person or a reference   *)
(* to its email if present, else its name, else its url, sanitizes an      *)
(* array element by element and drops the null and absent elements, and    *)
(* reduces an unrecognized structured value to its string form.            *)
(***************************************************************************)
IsPersonOrReference(x) ==
  x.t = "obj" /\ TypeOf(x) \in {<<"Person">>, <<"StructuredValue">>}

\* the first of email, name and url the object has
PreferredProperty(x) ==
  IF "email" \in DOMAIN x.v THEN x.v["email"]
  ELSE IF "name" \in DOMAIN x.v THEN x.v["name"]
  ELSE x.v["url"]

ElementWise(x) ==
  LET each == [i \in 1..Len(x.v) |-> sanitizeValue(x.v[i])]
  IN  Arr(SelectIdx(each, {i \in 1..Len(each) : each[i] # Null}))

C16_SanitizedAsSpecified ==
  stage = "sanitized" =>
    /\ cell.t \in {"bool", "num"} => sanitized = cell
    /\ (cell.t = "obj" /\ TypeOf(cell) = <<"MonetaryAmount">>) =>
          sanitized = cell.v["amount"]
    /\ (IsPersonOrReference(cell) /\ DOMAIN cell.v \cap {"email", "name", "url"} # {}) =>
          sanitized = PreferredProperty(cell)
    /\ cell.t = "arr" => sanitized = ElementWise(cell)
    /\ cell \in CellUnrecognized => sanitized = Str(<<"[object Object]">>)

\* a person with a url and neither email nor name comes out as the string
\* form of the object
C16_PersonWithUrlOnly ==
  /\ stage = "sanitized"
  /\ cell = TypedObject("Person", {"url"})
  /\ sanitized = Str(<<"[object Object]">>)

HoldsAttachment(id) == rowAttachments(SourceRow(id), columnMappings) # <<>>

ReceiptColumnId ==
  columnMappings[CHOOSE k \in AttachmentMappings(columnMappings) :
                   \A j \in AttachmentMappings(columnMappings) : k <= j].destinationColumn.id

PreparedWithDocument(prepared) ==
  /\ Len(prepared.processedFiles) = 1
  /\ LET processedFile == prepared.processedFiles[1]
         key == objectKey(processedFile.originalName \o PdfExt)
     IN  /\ processedFile.uploadedUrl # <<>>
         /\ processedFile.uploadedUrl = constructPublicUrl(key)
         /\ key \in DOMAIN objects
         /\ ReceiptColumnId \in DOMAIN prepared.destinationData
         /\ prepared.destinationData[ReceiptColumnId] = Str(processedFile.uploadedUrl)

\* the insert requests whose response holds one id per row of the request
CleanInserts ==
  {p \in PositionsOf("insertRows") :
     log[p + 1].arg.kind = "ids" /\ Len(log[p + 1].arg.ids) = Len(log[p].arg)}

C18_AttachmentRowEndToEnd ==
  /\ \A k \in 1..Len(preparedRows) :
        HoldsAttachment(preparedRows[k].sourceRowId) =>
          PreparedWithDocument(preparedRows[k])
  /\ \A p \in CleanInserts : \A i \in 1..Len(log[p].arg) :
        HoldsAttachment(log[p].arg[i]) =>
          /\ Cardinality(ResultsFor(allResults, log[p].arg[i])) = 1
          /\ \A j \in ResultsFor(allResults, log[p].arg[i]) :
                /\ allResults[j].success
                /\ allResults[j].destinationRowId = <<log[p + 1].arg.ids[i]>>
                /\ Len(allResults[j].processedFiles) = 1

C18_AttachmentRowMigrated ==
  /\ pc = "returned"
  /\ \E p \in CleanInserts : \E i \in 1..Len(log[p].arg) :
        /\ HoldsAttachment(log[p].arg[i])
        /\ \E j \in 1..Len(returned) :
              /\ returned[j].sourceRowId = log[p].arg[i]
              /\ returned[j].success
              /\ returned[j].destinationRowId = <<log[p + 1].arg.ids[i]>>

(***************************************************************************)
(* C19: at no point of a migrate or recover run are two requests to the    *)
(* table API or to the object store unanswered at the same time, in any    *)
(* phase, the connection test and the mapping included.                    *)
(***************************************************************************)
C19_OneRequestAtATime == Cardinality(inFlight) <= 1

\* both schema requests of createColumnMapping are out
C19_BothSchemaRequestsInFlight ==
  /\ pc = "columns"
  /\ inFlight = {Event("getColumns", "source"), Event("getColumns", "destination")}

(***************************************************************************)
(* C20: within one run nothing is retried, whatever fails: the prepare of  *)
(* a source row is attempted at most once, an attachment is downloaded at  *)
(* most once, the staged document of a row is uploaded at most once, and   *)
(* a prepared row is part of at most one insert request.                   *)
(***************************************************************************)
NoDuplicates(seq) == \A i, j \in 1..Len(seq) : seq[i] = seq[j] => i = j

\* the uploads made by the prepare logged at position p
UploadsOf(p) ==
  {q \in PositionsOf("putObject") :
     /\ q > p
     /\ log[q].arg # ConnectionTestKey
     /\ \A r \in PositionsOf("prepare") : ~(p < r /\ r < q)}

C20_NothingRetried ==
  /\ NoDuplicates(ArgsOf("prepare"))
  /\ NoDuplicates(ArgsOf("download"))
  /\ \A p \in PositionsOf("prepare") : Cardinality(UploadsOf(p)) <= 1
  /\ NoDuplicates(Concat(ArgsOf("insertRows")))

C20_RunWithFailures ==
  /\ pc = "returned"
  /\ Cardinality(PositionsOf("prepare")) >= 3
  /\ Cardinality(PositionsOf("insertRows")) >= 2
  /\ \E i \in PositionsOf("insertResponse") : log[i].arg.kind # "ids"
  /\ \E j \in 1..Len(returned) : returned[j].error \in PrepareErrors

(***************************************************************************)
(* C21: a recovery never modifies or deletes the ledger file it was given, *)
(* whatever the path (the default one, or one the caller passes, such as   *)
(* that of the still-failed ledger of an earlier recovery) and however the *)
(* run ends.                                                               *)
(***************************************************************************)
C21_InputLedgerUntouched ==
  (mode = "recover" /\ ~(pc = "thrown" /\ failedRowIds = <<>>)) =>
    /\ ledgerPath \in DOMAIN files
    /\ files[ledgerPath] = InputLedger(ledgerPath, failedRowIds)

\* the recovery read still-failed-rows.json, a row failed again, and the
\* file now holds the ledger this recovery wrote
C21_InputLedgerOverwritten ==
  /\ mode = "recover"
  /\ pc = "returned"
  /\ ledgerPath = StillFailedPath
  /\ StillFailedWritten
  /\ files[ledgerPath] = stillFailedData(returned, failedRowIds)
  /\ files[ledgerPath] # InputLedger(ledgerPath, failedRowIds)

(***************************************************************************)
(* C22: provided every external call eventually returns or fails, a        *)
(* migrate run eventually ends, by returning the result list or by a fatal *)
(* error, for every insert-batch size and every sequence of pages the      *)
(* remote answers the sweep with.                                          *)
(*                                                                         *)
(* The sweep goes on for as long as the responses carry a next cursor, so  *)
(* the run ends only when some response carries none: what holds of every  *)
(* run is that it ends unless the remote has answered every page request   *)
(* with a next cursor.                                                     *)
(***************************************************************************)
RunEnded == pc \in {"returned", "thrown"}

C22_MigrateEnds == (mode = "migrate") ~> RunEnded

\* every page request so far was answered with a next cursor
CursorWithEveryPage ==
  /\ pc = "sweep"
  /\ PageRequests = MaxPageRequests
  /\ \A i \in 1..Len(log) : log[i].kind = "pageReturned" => log[i].arg.next # 0

C22_MigrateEndsUnlessPagesNeverEnd ==
  (mode = "migrate") ~> (RunEnded \/ CursorWithEveryPage)

C22_MigrateEndedAfterPagesAndChunks ==
  /\ mode = "migrate"
  /\ pc = "returned"
  /\ Cardinality(PositionsOf("getRows")) >= 2
  /\ Cardinality(PositionsOf("insertRows")) >= 2

(***************************************************************************)
(* C23: when recover returns, the still-failed ledger has been written if  *)
(* and only if a result is failed; its originalFailureCount is the number  *)
(* of ids of the input ledger, recoveredCount the number of successful     *)
(* results, totalStillFailed the number of failed results, and             *)
(* failedRowIds the source ids of the failed results.                      *)
(***************************************************************************)
C23_StillFailedLedgerCounts ==
  (pc = "returned" /\ mode = "recover") =>
    LET failed == FailedOf(returned)
    IN  /\ StillFailedWritten <=> Len(failed) > 0
        /\ StillFailedWritten =>
              /\ StillFailedPath \in DOMAIN files
              /\ files[StillFailedPath].originalFailureCount = Len(failedRowIds)
              /\ files[StillFailedPath].recoveredCount =
                    Cardinality({k \in 1..Len(returned) : returned[k].success})
              /\ files[StillFailedPath].totalStillFailed = Len(failed)
              /\ files[StillFailedPath].failedRowIds =
                    [k \in 1..Len(failed) |-> failed[k].sourceRowId]

\* of a ledger of two ids, one row was not returned by the remote and the
\* other failed again
C23_StillFailedAfterPartialRetrieval ==
  /\ pc = "returned"
  /\ mode = "recover"
  /\ StillFailedWritten
  /\ Len(failedRowIds) = 2
  /\ Len(returned) = 1
  /\ files[StillFailedPath].originalFailureCount = 2
  /\ files[StillFailedPath].totalStillFailed = 1

(***************************************************************************)
(* C24: the phases of a run follow one another: no row is requested before *)
(* the connection test and the mapping have succeeded, no insert request   *)
(* is sent before every retrieved row has been through PREPARE, and no     *)
(* file is written before the insert attempt of the last chunk has ended.  *)
(***************************************************************************)
RowRequests == PositionsOf("getRows") \cup PositionsOf("getRowsByIds")

PrepareKinds == {"prepare", "download", "putObject"}

C24_PhaseOrder ==
  /\ \A i \in RowRequests :
       /\ SubSeq(log, 1, Len(ConnectionTestEvents)) = ConnectionTestEvents
       /\ \A e \in Range(ColumnEvents) : \E j \in 1..(i - 1) : log[j] = e
       /\ columnMappings # <<>>
  /\ \A i \in PositionsOf("insertRows") :
       /\ Cardinality({j \in 1..(i - 1) : log[j].kind = "prepare"}) = Len(sourceRows)
       /\ \A j \in (i + 1)..Len(log) :
            /\ log[j].kind \notin PrepareKinds
            /\ j \notin RowRequests
  /\ \A i \in PositionsOf("writeFile") :
       /\ Cardinality({j \in 1..(i - 1) : log[j].kind = "insertResponse"})
            = Len(batches(preparedRows, insertBatchSize))
       /\ \A j \in (i + 1)..Len(log) :
            log[j].kind \notin PrepareKinds \cup {"insertRows", "insertResponse"}

\* a migrate that retrieved two pages, prepared three rows, inserted them
\* in two chunks and wrote the ledger
C24_AllPhasesRun ==
  /\ pc = "returned"
  /\ mode = "migrate"
  /\ Cardinality(PositionsOf("getRows")) = 2
  /\ Cardinality(PositionsOf("prepare")) = 3
  /\ Cardinality(PositionsOf("insertRows")) = 2
  /\ LedgerWritten

(***************************************************************************)
(* C25: for a row with attachments, the combined document is in the        *)
(* staging directory when the upload to object storage is attempted, the   *)
(* upload reads that copy, and the copy is still there when the upload     *)
(* has ended, whether it succeeded or not.                                 *)
(***************************************************************************)
UploadAttempted ==
  \E k \in (Len(log) + 1)..Len(log') :
    log'[k].kind = "putObject" /\ log'[k].arg # ConnectionTestKey

C25_StagedCopyOutlivesUpload ==
  [][(pc = "prepare" /\ UploadAttempted) =>
       LET row == sourceRows[rowIndex]
       IN  \E attachments \in {rowAttachments(row, columnMappings)} :
             \E base \in {getBaseFileName(row, attachments)} :
               LET staged == Path(UploadDir, base \o PdfExt)
                   key == objectKey(base \o PdfExt)
               IN  /\ attachments # <<>>
                   /\ staged \in DOMAIN files'
                   /\ Len(files'[staged]) = Len(attachments)
                   /\ Len(preparedRows') > Len(preparedRows) =>
                        /\ key \in DOMAIN objects'
                        /\ objects'[key] = files'[staged]
                        /\ preparedRows'[Len(preparedRows')].processedFiles[1].pdfPath
                             = staged]_vars

\* the document of two attachments is in object storage and its staged copy
\* is on disk
C25_MergedDocumentUploaded ==
  \E k \in 1..Len(preparedRows) :
    /\ preparedRows[k].processedFiles # <<>>
    /\ preparedRows[k].processedFiles[1].pdfPath \in DOMAIN files
    /\ Len(files[preparedRows[k].processedFiles[1].pdfPath]) = 2
    /\ \E key \in DOMAIN objects :
         objects[key] = files[preparedRows[k].processedFiles[1].pdfPath]

(***************************************************************************)
(* C26: when the insert of a chunk of K prepared rows returns K ids, the   *)
(* result recorded for the i-th row of the chunk is a success with that    *)
(* row's source id and the i-th returned id, for every i from 1 to K.      *)
(***************************************************************************)
C26_PositionalSuccess ==
  [][(/\ pc = "insert"
      /\ Len(log') >= Len(log) + 2
      /\ log'[Len(log) + 2].kind = "insertResponse"
      /\ log'[Len(log) + 2].arg.kind = "ids"
      /\ Len(log'[Len(log) + 2].arg.ids)
           = Len(batches(preparedRows, insertBatchSize)[batchIndex])) =>
       \E batch \in {batches(preparedRows, insertBatchSize)[batchIndex]} :
         \E ids \in {log'[Len(log) + 2].arg.ids} :
           /\ Len(allResults') = Len(allResults) + Len(batch)
           /\ \A i \in 1..Len(batch) :
                /\ allResults'[Len(allResults) + i].success
                /\ allResults'[Len(allResults) + i].sourceRowId = batch[i].sourceRowId
                /\ allResults'[Len(allResults) + i].destinationRowId = <<ids[i]>>]_vars

\* two chunks, one of them of two rows, each answered with one id per row
C26_TwoCleanChunks ==
  /\ Cardinality(CleanInserts) = 2
  /\ \E p \in CleanInserts : Len(log[p].arg) = 2
  /\ Len(allResults) = 3
  /\ \A k \in 1..3 : allResults[k].success

(***************************************************************************)
(* C27: whatever the two schemas and the configuration, no mapping that    *)
(* createColumnMapping returns has a calculated source column, a           *)
(* calculated destination column, or a source column named in the          *)
(* skip-list, also when the configuration gives that column a destination. *)
(***************************************************************************)
C27_NoCalculatedOrSkippedColumnMapped ==
  stage = "resolved" =>
    \A k \in 1..Len(columnMappings) :
      /\ ~columnMappings[k].sourceColumn.calculated
      /\ ~columnMappings[k].destinationColumn.calculated
      /\ columnMappings[k].sourceColumn.name \notin schema.config.skipColumns

\* "Status" is in the skip-list and has a destination that exists, "Name"
\* maps to a name shared by a calculated and a plain column: the one
\* mapping is that of "Name", to the plain column
C27_SkippedColumnWithDestination ==
  /\ stage = "resolved"
  /\ schema.config.skipColumns = {"Status"}
  /\ DOMAIN schema.config.columnMappings = {"Name", "Status"}
  /\ schema.config.columnMappings["Status"] = "Update status"
  /\ schema.config.columnMappings["Name"] = "Update status"
  /\ \E j \in 1..Len(schema.dest) : schema.dest[j].id = "d-formula"
  /\ Len(columnMappings) = 1
  /\ columnMappings[1].sourceColumn.name = "Name"
  /\ columnMappings[1].destinationColumn.id = "d-status"

(***************************************************************************)
(* C28: the transform of a mapping is the configured custom transform      *)
(* when the configuration has one for the source column name, also when    *)
(* the declared types differ; otherwise the type coercion when the         *)
(* declared types differ; otherwise none.                                  *)
(***************************************************************************)
TransformOf(m) ==
  IF m.sourceColumn.name \in DOMAIN schema.config.transformations THEN "custom"
  ELSE IF m.sourceColumn.type # m.destinationColumn.type THEN "auto"
  ELSE "none"

C28_TransformByPriority ==
  stage = "resolved" =>
    \A k \in 1..Len(columnMappings) :
      /\ columnMappings[k].transform.kind = TransformOf(columnMappings[k])
      \* the custom transform hands the value on, the coercion to a text
      \* column makes a string of it
      /\ applyTransform(columnMappings[k].transform, Num(42)) =
           IF /\ TransformOf(columnMappings[k]) = "auto"
              /\ columnMappings[k].destinationColumn.type = "text"
           THEN Str(<<"4", "2">>)
           ELSE Num(42)

\* a select column with a configured transformation, mapped to a text
\* column: the custom transform is chosen although the types differ
C28_CustomTransformOverCoercion ==
  /\ stage = "resolved"
  /\ \E k \in 1..Len(columnMappings) :
       /\ columnMappings[k].sourceColumn.name \in DOMAIN schema.config.transformations
       /\ columnMappings[k].sourceColumn.type = "select"
       /\ columnMappings[k].destinationColumn.type = "text"
       /\ columnMappings[k].transform.kind = "custom"
  /\ \E k \in 1..Len(columnMappings) : columnMappings[k].transform.kind = "none"

(***************************************************************************)
(* C29: a source column whose configured destination name is that of no    *)
(* destination column that is not calculated is left out and the other     *)
(* columns are mapped all the same; the mapping step ends in a fatal error *)
(* exactly when the list of mappings is empty.                             *)
(***************************************************************************)
\* the positions, in the sorted source list, of the columns that are not
\* calculated, not in the skip-list, and configured with the name of a
\* destination column that is not calculated
Mappable(sourceColumns) ==
  {k \in 1..Len(sourceColumns) :
     /\ ~sourceColumns[k].calculated
     /\ sourceColumns[k].name \notin schema.config.skipColumns
     /\ sourceColumns[k].name \in DOMAIN schema.config.columnMappings
     /\ \E j \in 1..Len(schema.dest) :
          /\ schema.dest[j].name = schema.config.columnMappings[sourceColumns[k].name]
          /\ ~schema.dest[j].calculated}

C29_UnmatchedColumnDropped ==
  stage = "resolved" =>
    /\ [k \in 1..Len(columnMappings) |-> columnMappings[k].sourceColumn]
         = SelectIdx(getTableColumns(schema.source),
                     Mappable(getTableColumns(schema.source)))
    /\ pc = "thrown" <=> columnMappings = <<>>
    /\ pc # "thrown" <=> pc = "sweep"

\* "Name" is configured with a name the destination does not have and
\* "Status" with one it has: "Status" alone is mapped and the run goes on
C29_OtherColumnStillMapped ==
  /\ stage = "resolved"
  /\ DOMAIN schema.config.columnMappings = {"Name", "Status"}
  /\ schema.config.columnMappings["Name"] = "Amount"
  /\ \A k \in 1..Len(schema.source) : ~schema.source[k].calculated
  /\ schema.config.skipColumns = {}
  /\ Len(columnMappings) = 1
  /\ columnMappings[1].sourceColumn.name = "Status"
  /\ pc = "sweep"

(***************************************************************************)
(* C30: the sweep requests one page at a time; the first request carries   *)
(* no cursor and every later one the cursor of the response before it; no  *)
(* request follows a response without a next cursor, and the sweep ends    *)
(* only on such a response; the rows it returns are those of the pages in  *)
(* the order of the requests, no page twice and none left out.             *)
(***************************************************************************)
\* the page requests that were answered
AnsweredPages ==
  {p \in PositionsOf("getRows") : p < Len(log) /\ log[p + 1].kind = "pageReturned"}

\* the ids of the rows of the pages received, page after page
RECURSIVE PageIdsUpTo(_)
PageIdsUpTo(n) ==
  IF n = 0 THEN <<>>
  ELSE PageIdsUpTo(n - 1) \o (IF log[n].kind = "pageReturned" THEN log[n].arg.ids ELSE <<>>)

SweepEnded == mode = "migrate" /\ pc \in {"prepare", "insert", "summary", "returned"}

C30_SweepFollowsCursors ==
  mode = "migrate" =>
    /\ \A p \in PositionsOf("getRows") :
         \* one at a time: a request is answered before the next is made
         /\ p \in AnsweredPages \/ (p = Len(log) /\ pc = "thrown")
         /\ \A q \in PositionsOf("getRows") :
              (q < p /\ \A m \in PositionsOf("getRows") : ~(q < m /\ m < p)) =>
                /\ q \in AnsweredPages
                /\ log[q + 1].arg.next # 0
                /\ log[p].arg = log[q + 1].arg.next
         /\ (\A q \in PositionsOf("getRows") : q >= p) => log[p].arg = 0
         /\ \A q \in PositionsOf("getRows") : q # p => log[q].arg # log[p].arg
    /\ (pc \in {"sweep"} \cup {"prepare", "insert", "summary"}) =>
         [k \in 1..Len(sourceRows) |-> sourceRows[k].id] = PageIdsUpTo(Len(log))
    /\ SweepEnded =>
         /\ PositionsOf("getRows") # {}
         /\ \A p \in AnsweredPages :
              (\A q \in PositionsOf("getRows") : q <= p) => log[p + 1].arg.next = 0

\* three pages, the first two with a cursor, hold the three rows
C30_ThreePagesRead ==
  /\ mode = "migrate"
  /\ pc = "prepare"
  /\ Cardinality(AnsweredPages) = 3
  /\ \A p \in AnsweredPages : Len(log[p + 1].arg.ids) = 1
  /\ Len(sourceRows) = 3

(***************************************************************************)
(* C31: the targeted retrieval of a recovery cuts the id list of the       *)
(* ledger into consecutive chunks of at most SpecificBatchSize ids and     *)
(* requests each chunk once, in order, whatever became of the chunks       *)
(* before it; of each response it keeps the rows whose id is in the chunk  *)
(* asked for, and the rows it returns are the kept rows chunk after chunk. *)
(* A chunk whose request fails adds no row and ends nothing.               *)
(***************************************************************************)
\* the b-th chunk of the ledger's id list
LedgerChunk(b) ==
  [k \in 1..Min(SpecificBatchSize, Len(failedRowIds) - (b - 1) * SpecificBatchSize) |->
     failedRowIds[(b - 1) * SpecificBatchSize + k]]

\* the chunk request at position p of the log was answered
ChunkAnswered(p) == p < Len(log) /\ log[p + 1].kind = "rowsReturned"

\* the ids of the rows kept from the response to the request at position p
KeptIds(p) ==
  IF ChunkAnswered(p)
  THEN SelectIdx(log[p + 1].arg,
                 {k \in 1..Len(log[p + 1].arg) : log[p + 1].arg[k] \in Range(log[p].arg)})
  ELSE <<>>

TargetedRetrievalDone == pc \in {"prepare", "insert", "summary", "returned"}

C31_ChunksRequestedOnceEach ==
  mode = "recover" =>
    LET requests == ArgsOf("getRowsByIds")
        n == Len(requests)
    IN  /\ n <= CeilDiv(Len(failedRowIds), SpecificBatchSize)
        /\ TargetedRetrievalDone =>
             /\ n = CeilDiv(Len(failedRowIds), SpecificBatchSize)
             /\ Concat(requests) = failedRowIds
        /\ \A b \in 1..n :
             /\ requests[b] = LedgerChunk(b)
             /\ Len(requests[b]) \in 1..SpecificBatchSize
        /\ IdsOf(sourceRows)
             = Concat([b \in 1..n |-> KeptIds(NthPosition("getRowsByIds", b))])
        /\ (pc = "thrown" /\ log # <<>>) =>
             log[Len(log)].kind \notin {"getRowsByIds", "rowsReturned"}

\* two chunks: the response to the first held an unrequested row before a
\* requested one, the response to the second the row asked for
C31_RowsOfTwoChunks ==
  /\ mode = "recover"
  /\ pc = "prepare"
  /\ failedRowIds = LongLedger
  /\ ArgsOf("rowsReturned") = << <<3, 2>>, <<1>> >>
  /\ IdsOf(sourceRows) = <<2, 1>>

(***************************************************************************)
(* C32: for every attachment list of a row, lists with two attachments of  *)
(* the same name or of the same name up to the extension included, the     *)
(* combined document that a successful pipeline stages holds the document  *)
(* of each attachment exactly once, in the order of the list.              *)
(***************************************************************************)
\* the attachment list in the cell
CellAttachments == extractAttachmentsFromColumn(AttachmentRow, "c-file")

\* the document of one attachment: the PDF itself, the page that embeds the
\* image, or the placeholder page that names the file
DocumentOf(attachment) ==
  LET ext == toLowerCase(extname(attachment.name))
  IN  IF ext = PdfExt
      THEN [form |-> "orig", url |-> attachment.url, name |-> <<>>]
      ELSE IF ext \in ImageExts
      THEN [form |-> "image", url |-> attachment.url, name |-> <<>>]
      ELSE [form |-> "placeholder", url |-> <<>>, name |-> attachment.name]

PipelineSucceeded == stage = "processed" /\ ~pipeline.threw

C32_EachDocumentOnceInOrder ==
  PipelineSucceeded =>
    /\ pipeline.processedFile.pdfPath \in DOMAIN files
    /\ files[pipeline.processedFile.pdfPath]
         = [i \in 1..Len(CellAttachments) |-> DocumentOf(CellAttachments[i])]

\* two images of the same name: the staged document holds the second one
\* twice and the first one not at all
C32_SecondImageTwice ==
  /\ PipelineSucceeded
  /\ Len(CellAttachments) = 2
  /\ CellAttachments[1].name = CellAttachments[2].name
  /\ CellAttachments[1].url # CellAttachments[2].url
  /\ files[pipeline.processedFile.pdfPath]
       = <<DocumentOf(CellAttachments[2]), DocumentOf(CellAttachments[2])>>

(***************************************************************************)
(* C33: when the attachment pipeline of a row has succeeded, none of the   *)
(* scratch files it created is left (no download, no converted file, no    *)
(* combined document in the scratch directory), the staged document is at  *)
(* the path the returned ProcessedFile names, and the uploaded address of  *)
(* that ProcessedFile is empty.                                            *)
(***************************************************************************)
\* the scratch paths the pipeline writes to for the list in the cell
ScratchPathsOfCell ==
  {downloadPath(CellAttachments[i]) : i \in 1..Len(CellAttachments)}
  \cup {convertPath(downloadPath(CellAttachments[i])) : i \in 1..Len(CellAttachments)}
  \cup {tempFinalPdfPath(pipeline.processedFile.originalName)}

C33_NoScratchLeftDocumentStaged ==
  PipelineSucceeded =>
    /\ ScratchPathsOfCell \cap DOMAIN files = {}
    /\ \A q \in DOMAIN files : q.dir # TempDir
    /\ pipeline.processedFile.pdfPath.dir = UploadDir
    /\ pipeline.processedFile.pdfPath \in DOMAIN files
    /\ DOMAIN files = {pipeline.processedFile.pdfPath}
    /\ pipeline.processedFile.uploadedUrl = <<>>

\* a list of two attachments whose combined document has a scratch path of
\* its own went through
C33_CombinedDocumentOfItsOwn ==
  /\ PipelineSucceeded
  /\ Len(CellAttachments) = 2
  /\ tempFinalPdfPath(pipeline.processedFile.originalName)
       \notin {convertPath(downloadPath(CellAttachments[i])) : i \in 1..2}
  /\ pipeline.processedFile.pdfPath \in DOMAIN files

(***************************************************************************)
(* C34: on the same column mappings, the same source rows, the same        *)
(* insert-batch size and the same outcomes of the external calls, the      *)
(* PREPARE and INSERT phases of recover yield the result list of those of  *)
(* migrate, send the same insert requests in the same order and release    *)
(* the same staged files.                                                  *)
(***************************************************************************)
\* the events of the given kinds, in order
EventsOfKinds(events, kinds) ==
  SelectIdx(events, {i \in 1..Len(events) : events[i].kind \in kinds})

\* the staged documents on a disk
Staged(disk) == {<<q, disk[q]>> : q \in {x \in DOMAIN disk : x.dir = UploadDir}}

C34_RecoverPhasesAsMigrate ==
  twin # NoTwin =>
    /\ twin.pc = pc
    /\ twin.allResults = allResults
    /\ twin.preparedRows = preparedRows
    /\ EventsOfKinds(twin.events, {"insertRows"}) = EventsOfKinds(log, {"insertRows"})
    /\ EventsOfKinds(twin.events, {"release"}) = EventsOfKinds(log, {"release"})
    /\ EventsOfKinds(twin.events, {"prepare", "download", "putObject", "insertRows",
                                   "insertResponse", "release"})
         = EventsOfKinds(SubSeq(log, Len(log) - Len(twin.events) + 1, Len(log)),
                         {"prepare", "download", "putObject", "insertRows",
                          "insertResponse", "release"})
    /\ Staged(twin.files) = Staged(files)
    /\ twin.objects = objects

\* both have gone through two batches, one inserted and one that failed
\* with a row whose staged document was released
C34_BothThroughTwoBatches ==
  /\ twin # NoTwin
  /\ pc = "summary"
  /\ twin.pc = "summary"
  /\ Len(EventsOfKinds(twin.events, {"insertRows"})) = 2
  /\ Len(EventsOfKinds(twin.events, {"release"})) >= 1
  /\ \E j \in 1..Len(twin.allResults) : twin.allResults[j].success
  /\ \E j \in 1..Len(twin.allResults) :
       ~twin.allResults[j].success /\ twin.allResults[j].processedFiles # <<>>

(***************************************************************************)
(* C35: between two rows of the PREPARE phase and between two chunks of    *)
(* the INSERT phase, every document in the staging directory is that of a  *)
(* row that was prepared and whose chunk has not been submitted yet; a row *)
(* whose upload or mapping failed after its document was staged has no     *)
(* document there once its failed result is recorded.                      *)
(***************************************************************************)
StagedPaths == {q \in DOMAIN files : q.dir = UploadDir}

\* the prepared rows whose chunk has not been submitted
AwaitingInsert ==
  {k \in 1..Len(preparedRows) :
     pc = "prepare" \/ (pc = "insert" /\ k > (batchIndex - 1) * insertBatchSize)}

C35_StagedOnlyWhileAwaitingInsert ==
  pc \in {"prepare", "insert", "summary"} =>
    \A q \in StagedPaths :
      \E k \in AwaitingInsert :
        \E f \in 1..Len(preparedRows[k].processedFiles) :
          preparedRows[k].processedFiles[f].pdfPath = q

\* the upload of the first row failed, its failed result is recorded, and
\* its document is still in the staging directory
C35_StagedAfterFailedUpload ==
  /\ pc = "prepare"
  /\ rowIndex > 1
  /\ \E j \in ResultsFor(allResults, sourceRows[1].id) :
       /\ ~allResults[j].success
       /\ allResults[j].error = "Failed to upload file"
  /\ preparedRows = <<>>
  /\ \E q \in StagedPaths : q \in RowFiles(sourceRows[1])

(***************************************************************************)
(* C36: within one run no document of a row is replaced by that of another *)
(* row: two distinct source rows that both have attachments get different  *)
(* staged paths and different object keys, so the uploaded address of each *)
(* row designates the document built from its own attachments.             *)
(***************************************************************************)
\* the prepared rows that carry a document
WithDocument == {k \in 1..Len(preparedRows) : preparedRows[k].processedFiles # <<>>}

\* the combined document of a row, built from its own attachments
OwnDocument(row) ==
  LET attachments == rowAttachments(row, columnMappings)
  IN  [i \in 1..Len(attachments) |-> DocumentOf(attachments[i])]

RowOfId(id) == CHOOSE row \in Range(sourceRows) : row.id = id

C36_NoDocumentReplaced ==
  pc \in {"prepare", "insert", "summary"} =>
    /\ \A k1, k2 \in WithDocument :
         k1 # k2 =>
           /\ preparedRows[k1].processedFiles[1].pdfPath
                # preparedRows[k2].processedFiles[1].pdfPath
           /\ preparedRows[k1].processedFiles[1].uploadedUrl
                # preparedRows[k2].processedFiles[1].uploadedUrl
    /\ \A k \in WithDocument :
         LET key == objectKey(preparedRows[k].processedFiles[1].originalName \o PdfExt)
         IN  /\ preparedRows[k].processedFiles[1].uploadedUrl = constructPublicUrl(key)
             /\ key \in DOMAIN objects
             /\ objects[key] = OwnDocument(RowOfId(preparedRows[k].sourceRowId))

\* rows 2 and 4 are both prepared under the same staged path and the same
\* address, and the object at that address is the document of row 4
C36_RowTwoAddressHoldsRowFour ==
  /\ pc = "insert"
  /\ Len(preparedRows) = 2
  /\ WithDocument = {1, 2}
  /\ preparedRows[1].sourceRowId = 2
  /\ preparedRows[2].sourceRowId = 4
  /\ preparedRows[1].processedFiles[1].pdfPath = preparedRows[2].processedFiles[1].pdfPath
  /\ preparedRows[1].processedFiles[1].uploadedUrl
       = preparedRows[2].processedFiles[1].uploadedUrl
  /\ objects[objectKey(preparedRows[1].processedFiles[1].originalName \o PdfExt)]
       = OwnDocument(RowOfId(4))
  /\ OwnDocument(RowOfId(4)) # OwnDocument(RowOfId(2))

(***************************************************************************)
(* C37: every MigrationResult of the returned list is well-formed: a       *)
(* successful result carries a destination row id and no error text, a     *)
(* failed result carries an error text and no destination row id.          *)
(***************************************************************************)
WellFormed(result) ==
  IF result.success
  THEN result.destinationRowId # <<>> /\ result.error = ""
  ELSE result.error # "" /\ result.destinationRowId = <<>>

C37_ResultsWellFormed ==
  /\ \A j \in 1..Len(allResults) : WellFormed(allResults[j])
  /\ \A j \in 1..Len(returned) : WellFormed(returned[j])

\* the returned list holds an inserted row, a row that failed in PREPARE
\* and a row whose chunk failed
C37_ReturnedAllThreeKinds ==
  /\ pc = "returned"
  /\ \E j \in 1..Len(returned) : returned[j].success
  /\ \E j \in 1..Len(returned) : returned[j].error \in PrepareErrors
  /\ \E j \in 1..Len(returned) :
       returned[j].error \in {InsertError(resp) : resp \in InsertResponses(1, 1)}

(***************************************************************************)
(* C38: the payload of a row holds at most one value per destination       *)
(* column, and a source column whose sanitized value is null or absent     *)
(* adds no key; when two mapped source columns have the same destination   *)
(* column, the payload value is that of the later mapping, in mapping      *)
(* order, whose sanitized value is not null: an earlier value is           *)
(* overwritten.                                                            *)
(***************************************************************************)
\* the value the k-th mapping yields for the row
MappedValue(row, k) ==
  LET mapping == columnMappings[k]
      sourceValue == RowValue(row, mapping.sourceColumn.id)
  IN  sanitizeValue(IF mapping.transform.kind # "none" /\ sourceValue.t # "null"
                    THEN applyTransform(mapping.transform, sourceValue)
                    ELSE sourceValue)

\* the mappings into the destination column d that yield a value for the row
Yielding(row, d) ==
  {k \in 1..Len(columnMappings) :
     /\ columnMappings[k].destinationColumn.id = d
     /\ MappedValue(row, k).t # "null"}

C38_LaterMappingWins ==
  (pc = "insert" /\ Len(preparedRows) = 1) =>
    LET row == sourceRows[1]
        payload == preparedRows[1].destinationData
    IN  /\ DOMAIN payload
             = {d \in {columnMappings[k].destinationColumn.id : k \in 1..Len(columnMappings)} :
                  Yielding(row, d) # {}}
        /\ \A d \in DOMAIN payload :
             \E k \in Yielding(row, d) :
               /\ \A j \in Yielding(row, d) : j <= k
               /\ payload[d] = MappedValue(row, k)

\* both columns of the row hold a value and the payload has that of the
\* later mapping, which is the "Status" column when "Update status" is the
\* display column
C38_EarlierValueOverwritten ==
  /\ pc = "insert"
  /\ Len(preparedRows) = 1
  /\ Len(columnMappings) = 2
  /\ columnMappings[1].sourceColumn.id = "c-update"
  /\ columnMappings[1].destinationColumn.id = columnMappings[2].destinationColumn.id
  /\ MappedValue(sourceRows[1], 1) = Str(<<"a">>)
  /\ MappedValue(sourceRows[1], 2) = Str(<<"b">>)
  /\ preparedRows[1].destinationData = [d \in {"d-status"} |-> Str(<<"b">>)]

(***************************************************************************)
(* C39: over every sequence of migrate and recover calls on one            *)
(* MigrationService, the scratch and the staging directory exist whenever  *)
(* the attachment pipeline is to download, convert or stage a file: a row  *)
(* with attachments does not fail because an earlier call on the same      *)
(* instance has ended.                                                     *)
(***************************************************************************)
\* the PREPARE loop is at a row with attachments
PipelineDue ==
  /\ pc = "prepare"
  /\ rowAttachments(sourceRows[rowIndex], columnMappings) # <<>>

C39_DirectoriesWhenPipelineRuns ==
  PipelineDue => {TempDir, UploadDir} \subseteq dirs

\* in the second call a row with attachments has failed in its first
\* download, with neither directory on disk
C39_RowFailedInSecondCall ==
  /\ stage = "again"
  /\ dirs = {}
  /\ \E k \in 1..Len(sourceRows), i \in 1..Len(allResults) :
       /\ rowAttachments(sourceRows[k], columnMappings) # <<>>
       /\ allResults[i].sourceRowId = sourceRows[k].id
       /\ ~allResults[i].success
       /\ allResults[i].error = PipelineError(FailAt("download", 1))

====
